---- MODULE Spec2Model ----
(***************************************************************************)
(* Cluster lifecycle orchestration of dolphinscheduler-ec2-on-aws:         *)
(* create_cluster (src/src/commands/create.py) over the EC2 provisioner    *)
(* (src/src/aws/ec2.py), the service start of src/src/deploy/installer.py  *)
(* and scale_cluster / scale_in (src/src/commands/scale.py), the           *)
(* validation of cli create (src/cli.py, src/src/utils/validator.py), the  *)
(* placement of a batch on the subnets, cleanup_by_tags and delete_cluster *)
(* (src/src/commands/delete.py), the readiness probes                      *)
(* wait_for_service_ready and wait_for_ssh (src/src/deploy/ssh.py), and    *)
(* save_config / load_config and ConfigVersionManager (src/src/config.py). *)
(*                                                                         *)
(* The tuples of variables, the frame conditions (xxxFrame) and the idle   *)
(* predicates (XxxIdle) only state which part of the state an operation    *)
(* leaves alone; the sets an Init draws its inputs from enumerate inputs.  *)
(*                                                                         *)
(* An EC2 instance is <<role, index, generation>>: the identity tag        *)
(* ds-<role>-<index> it was created with and the number of instances that  *)
(* had been created with that tag, itself included.  cloud[tag] is the     *)
(* sequence of the states of the instances created with the tag.           *)
(***************************************************************************)
EXTENDS Integers, Sequences, FiniteSets, TLC

\* ------------------------------------------------------------- bounds
MaxRuns == 2          \* create_cluster runs against the same account
MaxNodes == 3         \* largest target count of a scale operation
MaxOps == 2           \* scale operations on the same cluster
MaxSubnets == 3       \* longest subnet list of a placement loop
MaxCount == 5         \* largest batch of a placement loop
MaxTgs == 1           \* target groups of a load balancer
MaxCleanups == 2      \* cleanup_by_tags runs in a row
MaxRetries == 4       \* largest max_retries of a readiness probe
MaxDeletes == 2       \* cli delete runs in a row
MaxItems == 2         \* longest list of a configuration that is saved and loaded
MaxClock == 2         \* seconds the clock of a ConfigVersionManager advances
MaxBackups == 3       \* backup_current_config calls on a ConfigVersionManager

\* -------------------------------------------------- program constants
MinMaster == 2
MinWorker == 1
MinApi == 1
AlertCount == 1
MinSubnets == 2

RoleOrder == <<"master", "worker", "api", "alert">>
RoleSet == {"master", "worker", "api", "alert"}

TagSpace ==
    {<<r, i>> : r \in RoleSet,
                i \in 0..((IF MaxNodes > MinMaster THEN MaxNodes ELSE MinMaster) - 1)}

NoInst == <<>>
NoOp == [component |-> "none", target |-> 0, n |-> 0]
NoPeer == [st |-> "idle", tag |-> <<"none", 0>>, project |-> "none", inst |-> NoInst,
           seen |-> 0, overlap |-> FALSE]
TagOf(inst) == <<inst[1], inst[2]>>

\* The cluster specification scale_cluster and cleanup_by_tags start from was
\* created from: the smallest one validate_config accepts.
CreateCounts == [master |-> MinMaster, worker |-> MinWorker, api |-> MinApi, alert |-> AlertCount]

VARIABLES
    cloud,          \* tag -> sequence of instance states ("pending", "running", "terminated")
    config,         \* in-memory configuration: role -> [count, nodes]
    saved,          \* persisted configuration file: role -> [count, nodes]
    runs,           \* create_cluster runs started
    pc,             \* position of the create_cluster run
    bi,             \* index in RoleOrder of the batch being provisioned; then of the node being started / verified
    units,          \* the thread pool's units of work of the current batch: tag -> [st, inst]
    instances,      \* create_instances_parallel's local list
    failed,         \* first exception seen by the as_completed loop, "none" if none
    all_instances,  \* role -> sequence of instances
    ledger,         \* DeploymentState.created_instances
    termCalls,      \* identifier lists passed to ec2.terminate_instances by the current operation
    primary,        \* the exception caught by create_cluster's except clause
    raised,         \* the exception that leaves create_cluster
    outcome,        \* "none", "success", "error"
    startLog,       \* start commands issued by start_services, in order
    notReady,       \* nodes whose post-start port check returned False
    hostStage,      \* tag -> last step of create_cluster completed on that host in this run
    lastProv,       \* tag -> instance returned by the last completed provisioning call
    createdNow,     \* instances created by ec2.create_instances in this run
    startFailed,    \* a start command of start_services failed in this run
    spc,            \* position of the scale_cluster operation
    sop,            \* the scale operation: [component, target, n], n the number of nodes to add or remove
    stopLog,        \* nodes a stop command was issued on by scale_in, in order
    drains,         \* nodes scale_in slept the fixed 30 s for after their stop command, in order
    rollout,        \* scale_out logged that the role needs a cluster restart
    hostsMap,       \* hosts_entries of the last configure_hosts_file call of scale_out
    hostsPushed,    \* hosts whose /etc/hosts that call has updated
    hostsAppended,  \* host -> the lines the configure_hosts_file calls of scale_out have appended to its /etc/hosts, in order
    sresult,        \* "none", "ok", or the exception that leaves scale_cluster
    ops,            \* scale operations started
    snap,           \* the persisted configuration and the cloud when the operation started
    subnets,        \* number of entries of aws.subnets in the configuration
    customTags,     \* ec2_advanced.<component>.tags of the configuration: key -> value
    registered,     \* instances registered in the ds-api-tg target group by create_alb
    peer,           \* a create_ec2_instance_idempotent call made by another run: [st, tag, inst (the instance it created), project (the owner of inst), seen, overlap]
    wrote,          \* save_config was called by the current command
    cliError,       \* the error cli create exits with before create_cluster is called
    pcount,         \* count argument of the placement loops
    placed,         \* subnet index chosen by create_instances_parallel for each submitted index
    distribution,   \* the list distribute_nodes_across_azs builds
    lbs,            \* load balancer -> [state, managed, project, tgs]
    cpc,            \* position of the cleanup_by_tags run
    project_name,   \* project_name argument of cleanup_by_tags, "none" for None
    cruns,          \* cleanup_by_tags runs started
    instance_ids,   \* instances found by describe_instances
    alb_arns,       \* load balancers found by the tag check, in order
    ci,             \* index of the load balancer the current loop is at
    tgLeft,         \* target groups of the current load balancer still to delete, -1 before they are listed
    clog,           \* delete and terminate calls issued by the current run, in order
    cresult,        \* "none" or "True", the value cleanup_by_tags returned
    unread,         \* load balancers whose describe_tags or describe_target_groups raised in the current run
    cprev,          \* the previous cleanup run: [ran, read, deleted, calls]
    prober,         \* the readiness probe called: "wait_for_service_ready" or "wait_for_ssh"
    max_retries,    \* max_retries argument of the probe
    attempt,        \* loop variable i of the probe
    plog,           \* outcome of every connection attempt of the probe, in order
    sleeps,         \* time.sleep(retry_interval) calls of the probe
    ppc,            \* position of the probe
    presult,        \* "none", "True", "False", or the exception that leaves the probe
    dpc,            \* position of the delete_cluster run
    druns,          \* cli delete runs started
    project,        \* project.name of the configuration, "none" if absent
    dstop,          \* "none", "skipped", "ok", "failed": what became of stop_services
    instance_ids_from_config,   \* delete_cluster's list of the same name
    instance_ids_from_tags,     \* delete_cluster's list of the same name
    delete_ids,     \* instance_ids of delete_cluster, the merged list
    dresult,        \* "none", "True", or the exception that leaves delete_cluster
    to_save,        \* the configuration passed to save_config
    yaml_file,      \* the YAML document in the configuration file, NoFile if the file is missing
    loaded,         \* what load_config returned, NotLoaded before it is called
    config_file,    \* content of the configuration file of the ConfigVersionManager, "missing" if absent
    backup_dir,     \* timestamp -> content of config_<timestamp>.yaml in .config_backups, "missing" if absent
    now,            \* datetime.now() in whole seconds
    taken,          \* the backups backup_current_config reported, in order: [timestamp, content]
    returned,       \* what the last backup_current_config returned and the directory it found
    versions        \* timestamps the last list_versions returned, in order

scaleLog == <<drains, rollout, hostsMap, hostsPushed, hostsAppended>>

coreVars == <<cloud, config, saved, runs, pc, bi, units, instances, failed, all_instances,
              ledger, termCalls, primary, raised, outcome, startLog, notReady, hostStage,
              lastProv, createdNow, startFailed, spc, sop, stopLog, scaleLog, sresult, ops, snap,
              wrote, cliError>>

inputVars == <<subnets, customTags, registered, peer>>
placeVars == <<pcount, placed, distribution>>
cleanVars == <<lbs, cpc, project_name, cruns, instance_ids, alb_arns, ci, tgLeft, clog,
               cresult, unread, cprev>>
probeVars == <<prober, max_retries, attempt, plog, sleeps, ppc, presult>>
deleteVars == <<dpc, druns, project, dstop, instance_ids_from_config, instance_ids_from_tags,
                delete_ids, dresult>>
ioVars == <<to_save, yaml_file, loaded>>
backupVars == <<config_file, backup_dir, now, taken, returned, versions>>
auxVars == <<probeVars, deleteVars, ioVars, backupVars>>
otherVars == <<inputVars, placeVars, cleanVars, auxVars>>

vars == <<coreVars, otherVars>>

scaleVars == <<spc, sop, stopLog, scaleLog, sresult, ops, snap>>

\* ------------------------------------------------------------ helpers
SeqToSet(s) == {s[k] : k \in 1..Len(s)}

EmptyTopology == [r \in RoleSet |-> <<>>]

\* ec2.instances.filter(tag:Name = tag, instance-state-name in running, pending)
ExistingInstancesRunningOnly(c, t) == {g \in 1..Len(c[t]) : c[t][g] = "running"}
ExistingInstances(c, t) == {g \in 1..Len(c[t]) : c[t][g] \in {"running", "pending"}}

\* a live resource: an instance that is running or pending
LiveGens(c, t) == {g \in 1..Len(c[t]) : c[t][g] = "running" \/ c[t][g] = "pending"}

IsLive(c, inst) == inst # NoInst /\ inst[3] \in LiveGens(c, TagOf(inst))

SetState(c, insts, s) ==
    [t \in TagSpace |-> [g \in 1..Len(c[t]) |-> IF <<t[1], t[2], g>> \in insts THEN s ELSE c[t][g]]]

\* all_hosts of create_cluster: every instance of all_instances, roles in insertion order
AllHosts(ai) == ai["master"] \o ai["worker"] \o ai["api"] \o ai["alert"]

\* executor.submit for every host of the list
Dispatch(hosts) ==
    [t \in {TagOf(hosts[k]) : k \in 1..Len(hosts)} |->
        [st |-> "running", inst |-> hosts[CHOOSE k \in 1..Len(hosts) : TagOf(hosts[k]) = t]]]

\* executor.submit(create_ec2_instance_idempotent, config, component, i, ...) for i in range(count)
DispatchBatch(role, count) ==
    [t \in {<<role, i>> : i \in 0..(count - 1)} |->
        [st |-> "running", inst |-> NoInst, pre |-> NoInst]]

Finished(u) == u.st \in {"ok", "fail"}

\* The with-block of a ThreadPoolExecutor ends (shutdown(wait=True)) when every
\* submitted unit has finished.
PoolDrainedFirstCompleted(us) == \E t \in DOMAIN us : Finished(us[t])
PoolDrained(us) == \A t \in DOMAIN us : Finished(us[t])

\* the steps of create_cluster, in program order; 0 outside them
StageNo(p) ==
    CASE p = "provision" -> 1
      [] p = "ssh" -> 2
      [] p = "init" -> 3
      [] p = "users" -> 4
      [] p \in {"keygen", "keys"} -> 5
      [] p = "hosts" -> 6
      [] p = "deploy" -> 7
      [] p \in {"start", "verify"} -> 8
      [] OTHER -> 0

\* the phase a step belongs to: Provision, NetworkReady, Initialize,
\* ConfigureTopology, DeploySoftware, StartServices
PhaseOfStage(n) ==
    CASE n \in {0, 1, 2} -> n
      [] n \in {3, 4} -> 3
      [] n \in {5, 6} -> 4
      [] n = 7 -> 5
      [] OTHER -> 6

\* the count create_cluster passes to create_instances_parallel for a role:
\* cluster.<role>.count for master, worker and api, the literal 1 for alert
BatchCount(cfg, role) == IF role = "alert" THEN AlertCount ELSE cfg[role].count

\* the identity tags of the hosts create_cluster provisions
Fleet(cfg) == {t \in TagSpace : t[2] < BatchCount(cfg, t[1])}

\* The availability zone of a node record: the zone of the subnet its
\* instance was created in, subnets[index % len(subnets)]; the subnets of the
\* configuration lie in pairwise different zones.
\* validate_config: the errors it collects on the node counts, on the zones
\* of the recorded master nodes and on the subnets
ValidateConfigSubnetsOnly(cfg, n) == IF n < MinSubnets THEN {"subnets"} ELSE {}
ValidateConfig(cfg, n) ==
    (IF cfg["master"].count < MinMaster THEN {"master"} ELSE {})
    \cup (IF cfg["api"].count < MinApi THEN {"api"} ELSE {})
    \cup (IF cfg["worker"].count < MinWorker THEN {"worker"} ELSE {})
    \cup (IF /\ cfg["master"].nodes # <<>>
              /\ Cardinality({cfg["master"].nodes[k][2] % n :
                                 k \in 1..Len(cfg["master"].nodes)}) < 2
           THEN {"zones"} ELSE {})
    \cup (IF n < MinSubnets THEN {"subnets"} ELSE {})

\* ---------------------------------------------------------------- Init
\* the load balancers of the account
AlbIds == {"alb-a", "alb-b"}
NoLb == [state |-> "absent", managed |-> FALSE, project |-> "none", tgs |-> 0]
NoRun == [ran |-> FALSE, read |-> TRUE, deleted |-> TRUE, calls |-> 0]

\* cleanup_by_tags has not run and the account has no load balancer
CleanupIdle ==
    /\ lbs = [a \in AlbIds |-> NoLb]
    /\ cpc = "idle"
    /\ project_name = "none"
    /\ cruns = 0
    /\ instance_ids = {}
    /\ alb_arns = <<>>
    /\ ci = 0
    /\ tgLeft = 0
    /\ clog = <<>>
    /\ cresult = "none"
    /\ unread = {}
    /\ cprev = NoRun

\* no placement loop has run
PlacementIdle ==
    /\ pcount = 0
    /\ placed = <<>>
    /\ distribution = <<>>

\* no readiness probe was called
ProbeIdle ==
    /\ prober = "none"
    /\ max_retries = 0
    /\ attempt = 0
    /\ plog = <<>>
    /\ sleeps = 0
    /\ ppc = "idle"
    /\ presult = "none"

\* cli delete was not run
DeleteIdle ==
    /\ dpc = "idle"
    /\ druns = 0
    /\ project = "none"
    /\ dstop = "none"
    /\ instance_ids_from_config = <<>>
    /\ instance_ids_from_tags = <<>>
    /\ delete_ids = <<>>
    /\ dresult = "none"

NoFile == <<"missing">>
NotLoaded == <<"unset">>
PyNone == <<"none", "null">>

\* save_config and load_config were not called
IoIdle ==
    /\ to_save = PyNone
    /\ yaml_file = NoFile
    /\ loaded = NotLoaded

\* the seconds of the clock and an empty backup directory
Timestamps == 0..MaxClock
EmptyDir == [t \in Timestamps |-> "missing"]

\* ConfigVersionManager(config_file) was constructed and not used
BackupIdle ==
    /\ config_file = "missing"
    /\ backup_dir = EmptyDir
    /\ now = 0
    /\ taken = <<>>
    /\ returned = [value |-> "none", timestamp |-> 0, found |-> EmptyDir]
    /\ versions = <<>>

AuxIdle ==
    /\ ProbeIdle
    /\ DeleteIdle
    /\ IoIdle
    /\ BackupIdle

Init ==
    /\ cloud = [t \in TagSpace |-> <<>>]
    \* The cluster specifications cli create is run on: every role's count is
    \* the smallest accepted one or one less (alert: the 1 create_cluster
    \* uses, or one more), no node is recorded yet.
    /\ saved \in {[r \in RoleSet |-> [count |-> c[r], nodes |-> <<>>]] :
                    c \in {f \in [RoleSet -> 0..(MinMaster + AlertCount)] :
                              /\ f["master"] \in {MinMaster - 1, MinMaster}
                              /\ f["worker"] \in {MinWorker - 1, MinWorker}
                              /\ f["api"] \in {MinApi - 1, MinApi}
                              /\ f["alert"] \in {AlertCount, AlertCount + 1}}}
    /\ config = saved
    /\ subnets \in {MinSubnets - 1, MinSubnets}
    /\ customTags = <<>>
    /\ registered = {}
    /\ peer = NoPeer
    /\ wrote = FALSE
    /\ cliError = "none"
    /\ PlacementIdle
    /\ CleanupIdle
    /\ AuxIdle
    /\ runs = 0
    /\ pc = "idle"
    /\ bi = 0
    /\ units = <<>>
    /\ instances = <<>>
    /\ failed = "none"
    /\ all_instances = EmptyTopology
    /\ ledger = <<>>
    /\ termCalls = <<>>
    /\ primary = "none"
    /\ raised = "none"
    /\ outcome = "none"
    /\ startLog = <<>>
    /\ notReady = {}
    /\ hostStage = [t \in TagSpace |-> 0]
    /\ lastProv = [t \in TagSpace |-> NoInst]
    /\ createdNow = {}
    /\ startFailed = FALSE
    /\ spc = "idle"
    /\ sop = NoOp
    /\ stopLog = <<>>
    /\ drains = <<>>
    /\ rollout = FALSE
    /\ hostsMap = <<>>
    /\ hostsPushed = {}
    /\ hostsAppended = [h \in {} |-> <<>>]
    /\ sresult = "none"
    /\ ops = 0
    /\ snap = [saved |-> saved, cloud |-> [t \in TagSpace |-> <<>>]]

\* ------------------------------------------------- create_cluster: entry
\* cli create: load_config, then validate_config raises ValueError, or one of
\* the checks against the account, the database, the registry or the storage
\* raises; the command exits before create_cluster is called
ValidateFail ==
    /\ pc \in {"idle", "done"}
    /\ runs < MaxRuns
    /\ runs' = runs + 1
    /\ cliError' = IF ValidateConfig(saved, subnets) # {} THEN "ValueError"
                                                          ELSE "PreflightError"
    /\ UNCHANGED <<cloud, config, saved, pc, bi, units, instances, failed, all_instances,
                   ledger, termCalls, primary, raised, outcome, startLog, notReady,
                   hostStage, lastProv, createdNow, startFailed, wrote, scaleVars>>
    /\ UNCHANGED otherVars

\* cli create: load_config, the validations pass, then create_cluster up to
\* the first batch's submit loop
StartRun ==
    /\ pc \in {"idle", "done"}
    /\ runs < MaxRuns
    /\ ValidateConfig(saved, subnets) = {}
    /\ runs' = runs + 1
    /\ config' = saved
    /\ pc' = "provision"
    /\ bi' = 1
    /\ units' = DispatchBatch(RoleOrder[1], BatchCount(saved, RoleOrder[1]))
    /\ instances' = <<>>
    /\ failed' = "none"
    /\ all_instances' = EmptyTopology
    /\ ledger' = <<>>
    /\ termCalls' = <<>>
    /\ primary' = "none"
    /\ raised' = "none"
    /\ outcome' = "none"
    /\ startLog' = <<>>
    /\ notReady' = {}
    /\ hostStage' = [t \in TagSpace |-> 0]
    /\ createdNow' = {}
    /\ startFailed' = FALSE
    /\ UNCHANGED <<cloud, saved, lastProv, startFailed,
                   scaleVars>>
    /\ wrote' = FALSE
    /\ cliError' = "none"
    /\ UNCHANGED otherVars

\* A unit's future completes: as_completed hands it to the loop of the caller,
\* which appends the result, or raises at the first exception it sees.
Collect(t, inst) ==
    /\ units' = [units EXCEPT ![t].st = "ok", ![t].inst = inst]
    /\ instances' = IF failed = "none" THEN Append(instances, inst) ELSE instances
    /\ UNCHANGED failed

Fail(t, err) ==
    /\ units' = [units EXCEPT ![t].st = "fail"]
    /\ failed' = IF failed = "none" THEN err ELSE failed
    /\ UNCHANGED instances

\* ---------------------------------------- create_ec2_instance_idempotent
\* create_instances_parallel is running, called by create_cluster or by scale_out
Provisioning == pc = "provision" \/ spc = "provision"

\* the instance the previous call for the tag returned, if no termination
\* has taken it since (kept only to state the idempotency of the call)
StillLive(inst) == IF IsLive(cloud, inst) THEN inst ELSE NoInst

\* the lookup by identity tag: an existing instance is returned as it is
LookupFound(t) ==
    /\ Provisioning
    /\ t \in DOMAIN units
    /\ units[t].st = "running"
    /\ \E g \in ExistingInstances(cloud, t) :
        /\ units' = [units EXCEPT ![t] = [st |-> "ok", inst |-> <<t[1], t[2], g>>,
                                          pre |-> StillLive(lastProv[t])]]
        /\ instances' = IF failed = "none" THEN Append(instances, <<t[1], t[2], g>>)
                                           ELSE instances
        /\ UNCHANGED failed
        /\ lastProv' = [lastProv EXCEPT ![t] = <<t[1], t[2], g>>]
        /\ hostStage' = [hostStage EXCEPT ![t] = 1]
    /\ UNCHANGED <<cloud, config, saved, runs, pc, bi, all_instances, ledger, termCalls,
                   primary, raised, outcome, startLog, notReady, createdNow, startFailed,
                   scaleVars>>
    /\ UNCHANGED <<wrote, cliError>>
    /\ UNCHANGED otherVars

\* the lookup finds nothing: create_ec2_instance is entered
LookupMissing(t) ==
    /\ Provisioning
    /\ t \in DOMAIN units
    /\ units[t].st = "running"
    /\ ExistingInstances(cloud, t) = {}
    /\ units' = [units EXCEPT ![t].st = "create", ![t].pre = StillLive(lastProv[t])]
    /\ UNCHANGED <<cloud, config, saved, runs, pc, bi, instances, failed, all_instances,
                   ledger, termCalls, primary, raised, outcome, startLog, notReady,
                   hostStage, lastProv, createdNow, startFailed,
                   scaleVars>>
    /\ UNCHANGED <<wrote, cliError>>
    /\ UNCHANGED otherVars

\* ec2.create_instances: the platform creates one pending instance, or rejects
CreateInstance(t) ==
    /\ Provisioning
    /\ t \in DOMAIN units
    /\ units[t].st = "create"
    /\ LET inst == <<t[1], t[2], Len(cloud[t]) + 1>> IN
        /\ cloud' = [cloud EXCEPT ![t] = Append(@, "pending")]
        /\ units' = [units EXCEPT ![t].st = "wait", ![t].inst = inst]
        /\ createdNow' = createdNow \cup {inst}
    /\ UNCHANGED <<config, saved, runs, pc, bi, instances, failed, all_instances, ledger,
                   termCalls, primary, raised, outcome, startLog, notReady, hostStage,
                   lastProv, startFailed,
                   scaleVars>>
    /\ UNCHANGED <<wrote, cliError>>
    /\ UNCHANGED otherVars

CreateRejected(t) ==
    /\ Provisioning
    /\ t \in DOMAIN units
    /\ units[t].st = "create"
    /\ Fail(t, "ProvisionError")
    /\ UNCHANGED <<cloud, config, saved, runs, pc, bi, all_instances, ledger, termCalls,
                   primary, raised, outcome, startLog, notReady, hostStage, lastProv,
                   createdNow, startFailed,
                   scaleVars>>
    /\ UNCHANGED <<wrote, cliError>>
    /\ UNCHANGED otherVars

\* instance.wait_until_running() returns: the instance runs and is returned
WaitRunning(t) ==
    /\ Provisioning
    /\ t \in DOMAIN units
    /\ units[t].st = "wait"
    /\ cloud' = SetState(cloud, {units[t].inst}, "running")
    /\ Collect(t, units[t].inst)
    /\ lastProv' = [lastProv EXCEPT ![t] = units[t].inst]
    /\ hostStage' = [hostStage EXCEPT ![t] = 1]
    /\ UNCHANGED <<config, saved, runs, pc, bi, all_instances, ledger, termCalls,
                   primary, raised, outcome, startLog, notReady, createdNow, startFailed,
                   scaleVars>>
    /\ UNCHANGED <<wrote, cliError>>
    /\ UNCHANGED otherVars

\* instance.wait_until_running() raises: the instance stays behind, pending
WaitTimeout(t) ==
    /\ Provisioning
    /\ t \in DOMAIN units
    /\ units[t].st = "wait"
    /\ Fail(t, "NotReadyError")
    /\ UNCHANGED <<cloud, config, saved, runs, pc, bi, all_instances, ledger, termCalls,
                   primary, raised, outcome, startLog, notReady, hostStage, lastProv,
                   createdNow, startFailed,
                   scaleVars>>
    /\ UNCHANGED <<wrote, cliError>>
    /\ UNCHANGED otherVars

\* ------------------------------------------------ create_cluster: phases
\* update_config_with_instances: one node record per instance, in list order
UpdateConfigWithInstances(cfg, ai) ==
    [r \in RoleSet |-> [cfg[r] EXCEPT !.nodes = ai[r]]]

\* create_instances_parallel returns (or raises) once its pool has drained;
\* create_cluster records the returned instances, then submits the next batch,
\* and after the alert batch goes on to wait_for_ssh_parallel.
BatchDone ==
    /\ pc = "provision"
    /\ PoolDrained(units)
    /\ IF failed # "none"
       THEN /\ pc' = "rollback"
            /\ primary' = failed
            /\ instances' = <<>>
            /\ UNCHANGED <<bi, units, failed, all_instances, ledger, config>>
       ELSE LET ai == [all_instances EXCEPT ![RoleOrder[bi]] = instances]
                lg == ledger \o instances
            IN  /\ all_instances' = ai
                /\ ledger' = lg
                /\ instances' = <<>>
                /\ UNCHANGED <<failed, primary>>
                /\ IF bi < Len(RoleOrder)
                   THEN /\ bi' = bi + 1
                        /\ units' = DispatchBatch(RoleOrder[bi + 1],
                                                   BatchCount(config, RoleOrder[bi + 1]))
                        /\ UNCHANGED <<pc, config>>
                   ELSE /\ bi' = 0
                        /\ config' = UpdateConfigWithInstances(config, ai)
                        /\ pc' = "ssh"
                        /\ units' = Dispatch(AllHosts(ai))
    /\ UNCHANGED <<cloud, saved, runs, termCalls, raised, outcome, startLog, notReady,
                   hostStage, lastProv, createdNow, startFailed,
                   scaleVars>>
    /\ UNCHANGED <<wrote, cliError>>
    /\ UNCHANGED otherVars

\* One unit of wait_for_ssh_parallel, initialize_nodes_parallel,
\* create_users_parallel, setup_ssh_keys or configure_hosts_file finishes.
ParallelPhases == {"ssh", "init", "users", "keys", "hosts"}

PhaseError(p) ==
    CASE p = "ssh" -> "SSHError"
      [] p = "init" -> "InitError"
      [] p = "users" -> "UserError"
      [] p = "keygen" -> "KeyError"
      [] p = "keys" -> "KeyError"
      [] p = "hosts" -> "HostsError"
      [] p = "deploy" -> "DeployError"
      [] OTHER -> "StartError"

UnitOk(t) ==
    /\ pc \in ParallelPhases
    /\ t \in DOMAIN units
    /\ units[t].st = "running"
    /\ units' = [units EXCEPT ![t].st = "ok"]
    /\ hostStage' = [hostStage EXCEPT ![t] = StageNo(pc)]
    /\ UNCHANGED <<cloud, config, saved, runs, pc, bi, instances, failed, all_instances,
                   ledger, termCalls, primary, raised, outcome, startLog, notReady,
                   lastProv, createdNow, startFailed,
                   scaleVars>>
    /\ UNCHANGED <<wrote, cliError>>
    /\ UNCHANGED otherVars

\* the unit raises: the as_completed loop of the helper logs and re-raises
UnitFailLogged(t) ==
    /\ pc \in ParallelPhases
    /\ t \in DOMAIN units
    /\ units[t].st = "running"
    /\ units' = [units EXCEPT ![t].st = "fail"]
    /\ UNCHANGED <<cloud, config, saved, runs, pc, bi, all_instances, ledger, termCalls,
                   primary, raised, outcome, startLog, notReady, hostStage, lastProv,
                   createdNow, startFailed, instances, failed,
                   scaleVars>>
    /\ UNCHANGED <<wrote, cliError>>
    /\ UNCHANGED otherVars
UnitFail(t) ==
    /\ pc \in ParallelPhases
    /\ t \in DOMAIN units
    /\ units[t].st = "running"
    /\ Fail(t, PhaseError(pc))
    /\ UNCHANGED <<cloud, config, saved, runs, pc, bi, all_instances, ledger, termCalls,
                   primary, raised, outcome, startLog, notReady, hostStage, lastProv,
                   createdNow, startFailed,
                   scaleVars>>
    /\ UNCHANGED <<wrote, cliError>>
    /\ UNCHANGED otherVars

NextPhase(p) ==
    CASE p = "ssh" -> "init"
      [] p = "init" -> "users"
      [] p = "users" -> "keygen"
      [] p = "keys" -> "hosts"
      [] OTHER -> "deploy"

\* The parallel helper returns (or raises) once its pool has drained.
PhaseDone ==
    /\ pc \in ParallelPhases
    /\ PoolDrained(units)
    /\ IF failed # "none"
       THEN /\ pc' = "rollback"
            /\ primary' = failed
            /\ UNCHANGED units
       ELSE /\ pc' = NextPhase(pc)
            /\ units' = IF NextPhase(pc) \in ParallelPhases
                        THEN Dispatch(AllHosts(all_instances))
                        ELSE <<>>
            /\ UNCHANGED primary
    /\ UNCHANGED <<cloud, config, saved, runs, bi, instances, failed, all_instances,
                   ledger, termCalls, raised, outcome, startLog, notReady, hostStage,
                   lastProv, createdNow, startFailed,
                   scaleVars>>
    /\ UNCHANGED <<wrote, cliError>>
    /\ UNCHANGED otherVars

\* setup_ssh_keys: the key pair is generated on the first node, then the
\* public key is distributed by a pool
KeygenOk ==
    /\ pc = "keygen"
    /\ pc' = "keys"
    /\ units' = Dispatch(AllHosts(all_instances))
    /\ UNCHANGED <<cloud, config, saved, runs, bi, instances, failed, all_instances,
                   ledger, termCalls, primary, raised, outcome, startLog, notReady,
                   hostStage, lastProv, createdNow, startFailed,
                   scaleVars>>
    /\ UNCHANGED <<wrote, cliError>>
    /\ UNCHANGED otherVars

KeygenFail ==
    /\ pc = "keygen"
    /\ pc' = "rollback"
    /\ primary' = PhaseError(pc)
    /\ UNCHANGED <<cloud, config, saved, runs, bi, units, instances, failed,
                   all_instances, ledger, termCalls, raised, outcome, startLog,
                   notReady, hostStage, lastProv, createdNow, startFailed,
                   scaleVars>>
    /\ UNCHANGED <<wrote, cliError>>
    /\ UNCHANGED otherVars

\* deploy_dolphinscheduler(config, package_file): one call for the whole fleet
DeployOk ==
    /\ pc = "deploy"
    /\ pc' = "start"
    /\ bi' = 1
    /\ hostStage' = [t \in TagSpace |-> IF t \in Fleet(config) THEN StageNo(pc) ELSE hostStage[t]]
    /\ UNCHANGED <<cloud, config, saved, runs, units, instances, failed, all_instances,
                   ledger, termCalls, primary, raised, outcome, startLog, notReady,
                   lastProv, createdNow, startFailed,
                   scaleVars>>
    /\ UNCHANGED <<wrote, cliError>>
    /\ UNCHANGED otherVars

DeployFail ==
    /\ pc = "deploy"
    /\ pc' = "rollback"
    /\ primary' = PhaseError(pc)
    /\ UNCHANGED <<cloud, config, saved, runs, bi, units, instances, failed,
                   all_instances, ledger, termCalls, raised, outcome, startLog,
                   notReady, hostStage, lastProv, createdNow, startFailed,
                   scaleVars>>
    /\ UNCHANGED <<wrote, cliError>>
    /\ UNCHANGED otherVars

\* ------------------------------------------------------- start_services
\* the nodes start_services visits, in the order of its four blocks
StartOrderWorkersFirst(cfg) ==
    cfg["worker"].nodes \o cfg["master"].nodes \o cfg["api"].nodes \o <<cfg["alert"].nodes[1]>>
StartOrder(cfg) ==
    cfg["master"].nodes \o cfg["worker"].nodes \o cfg["api"].nodes \o <<cfg["alert"].nodes[1]>>

\* connect_ssh and the start command on the next node succeed
StartNodeOk ==
    /\ pc = "start"
    /\ bi <= Len(StartOrder(config))
    /\ startLog' = Append(startLog, StartOrder(config)[bi])
    /\ hostStage' = [hostStage EXCEPT ![TagOf(StartOrder(config)[bi])] = StageNo(pc)]
    /\ IF bi < Len(StartOrder(config))
       THEN bi' = bi + 1 /\ UNCHANGED pc
       ELSE bi' = 1 /\ pc' = "verify"
    /\ UNCHANGED <<cloud, config, saved, runs, units, instances, failed, all_instances,
                   ledger, termCalls, primary, raised, outcome, notReady, lastProv,
                   createdNow, startFailed,
                   scaleVars>>
    /\ UNCHANGED <<wrote, cliError>>
    /\ UNCHANGED otherVars

\* the except clause around each start command: logger.error, then raise
OnStartFailureContinue == "continue"
OnStartFailure == "raise"

\* connect_ssh or the start command raises: start_services logs and re-raises,
\* and the exception reaches the except clause of create_cluster
StartNodeFail ==
    /\ pc = "start"
    /\ bi <= Len(StartOrder(config))
    /\ IF OnStartFailure = "raise"
       THEN /\ pc' = "rollback"
            /\ primary' = PhaseError(pc)
            /\ UNCHANGED bi
       ELSE /\ UNCHANGED primary
            /\ IF bi < Len(StartOrder(config))
               THEN bi' = bi + 1 /\ UNCHANGED pc
               ELSE bi' = 1 /\ pc' = "verify"
    /\ startFailed' = TRUE
    /\ UNCHANGED <<cloud, config, saved, runs, units, instances, failed,
                   all_instances, ledger, termCalls, raised, outcome, startLog,
                   notReady, hostStage, lastProv, createdNow,
                   scaleVars>>
    /\ UNCHANGED <<wrote, cliError>>
    /\ UNCHANGED otherVars

\* ------------------------------------------------ post-start verification
\* the nodes whose service port create_cluster polls: master, worker, api
VerifyOrder(cfg) == cfg["master"].nodes \o cfg["worker"].nodes \o cfg["api"].nodes

\* what create_cluster does with the result of wait_for_service_ready:
\* it logs when the port answered and goes on in either case
VerifyAbortsWhenNotReady(ready) == IF ready THEN "continue" ELSE "raise"
VerifyResult(ready) == "continue"

\* wait_for_service_ready(host, port, max_retries=10) returns ready
VerifyNode(ready) ==
    /\ pc = "verify"
    /\ bi <= Len(VerifyOrder(config))
    /\ notReady' = IF ready THEN notReady ELSE notReady \cup {VerifyOrder(config)[bi]}
    /\ IF VerifyResult(ready) = "raise"
       THEN /\ pc' = "rollback"
            /\ primary' = "NotReadyError"
            /\ UNCHANGED bi
       ELSE /\ bi' = bi + 1
            /\ UNCHANGED <<pc, primary>>
    /\ UNCHANGED <<cloud, config, saved, runs, units, instances, failed, all_instances,
                   ledger, termCalls, raised, outcome, startLog, hostStage, lastProv,
                   createdNow, startFailed,
                   scaleVars>>
    /\ UNCHANGED <<wrote, cliError>>
    /\ UNCHANGED otherVars

\* create_cluster returns {'success': True, ...}; cli create saves the configuration
ReturnSuccess ==
    /\ pc = "verify"
    /\ bi > Len(VerifyOrder(config))
    /\ outcome' = "success"
    /\ pc' = "done"
    /\ saved' = config
    /\ UNCHANGED <<cloud, config, runs, bi, units, instances, failed, all_instances,
                   ledger, termCalls, primary, raised, startLog, notReady, hostStage,
                   lastProv, createdNow, startFailed,
                   scaleVars>>
    /\ wrote' = TRUE
    /\ UNCHANGED cliError
    /\ UNCHANGED otherVars

\* ------------------------------------------------------ terminate_instances
\* terminate_instances(config, instance_ids): the requests it sends to
\* ec2.terminate_instances; if not instance_ids: return True
TerminateRequestsAlways(ids) == <<ids>>
TerminateRequests(ids) == IF ids = <<>> THEN <<>> ELSE <<ids>>

\* ---------------------------------------------------- rollback_deployment
\* instance_ids = [inst.id for inst in state.created_instances]
RollbackIdsAllButLast(lg) == SubSeq(lg, 1, Len(lg) - 1)
RollbackIds(lg) == lg

\* the exception that leaves the except clause when terminate_instances raised
\* inside rollback_deployment: nothing catches it there, so it replaces the
\* one being handled and the bare raise is never reached
AfterFailedRollback(orig, secondary) == secondary

\* the ledger is empty: no call; the bare raise re-raises the caught exception
RollbackNothing ==
    /\ pc = "rollback"
    /\ RollbackIds(ledger) = <<>>
    /\ raised' = primary
    /\ outcome' = "error"
    /\ pc' = "done"
    /\ UNCHANGED <<cloud, config, saved, runs, bi, units, instances, failed,
                   all_instances, ledger, termCalls, primary, startLog, notReady,
                   hostStage, lastProv, createdNow, startFailed,
                   scaleVars>>
    /\ UNCHANGED <<wrote, cliError>>
    /\ UNCHANGED otherVars

\* ec2.terminate_instances(InstanceIds=instance_ids) succeeds
RollbackTerminate ==
    /\ pc = "rollback"
    /\ RollbackIds(ledger) # <<>>
    /\ termCalls' = termCalls \o TerminateRequests(RollbackIds(ledger))
    /\ cloud' = SetState(cloud, SeqToSet(RollbackIds(ledger)), "terminated")
    /\ raised' = primary
    /\ outcome' = "error"
    /\ pc' = "done"
    /\ UNCHANGED <<config, saved, runs, bi, units, instances, failed, all_instances,
                   ledger, primary, startLog, notReady, hostStage, lastProv, createdNow, startFailed,
                   scaleVars>>
    /\ UNCHANGED <<wrote, cliError>>
    /\ UNCHANGED otherVars

\* ec2.terminate_instances raises: nothing catches it in rollback_deployment
RollbackTerminateFails ==
    /\ pc = "rollback"
    /\ RollbackIds(ledger) # <<>>
    /\ termCalls' = termCalls \o TerminateRequests(RollbackIds(ledger))
    /\ raised' = AfterFailedRollback(primary, "TerminateError")
    /\ outcome' = "error"
    /\ pc' = "done"
    /\ UNCHANGED <<cloud, config, saved, runs, bi, units, instances, failed,
                   all_instances, ledger, primary, startLog, notReady, hostStage,
                   lastProv, createdNow, startFailed,
                   scaleVars>>
    /\ UNCHANGED <<wrote, cliError>>
    /\ UNCHANGED otherVars

Next ==
    \/ ValidateFail
    \/ StartRun
    \/ \E t \in TagSpace : LookupFound(t)
    \/ \E t \in TagSpace : LookupMissing(t)
    \/ \E t \in TagSpace : CreateInstance(t)
    \/ \E t \in TagSpace : CreateRejected(t)
    \/ \E t \in TagSpace : WaitRunning(t)
    \/ \E t \in TagSpace : WaitTimeout(t)
    \/ BatchDone
    \/ \E t \in TagSpace : UnitOk(t)
    \/ \E t \in TagSpace : UnitFail(t)
    \/ PhaseDone
    \/ KeygenOk
    \/ KeygenFail
    \/ DeployOk
    \/ DeployFail
    \/ StartNodeOk
    \/ StartNodeFail
    \/ \E ready \in BOOLEAN : VerifyNode(ready)
    \/ ReturnSuccess
    \/ RollbackNothing
    \/ RollbackTerminate
    \/ RollbackTerminateFails

Spec == Init /\ [][Next]_vars

\* what delete_cluster and a call of terminate_instances leave alone
deleteFrame == <<saved, runs, pc, bi, units, instances, failed, all_instances, ledger,
                 primary, raised, outcome, startLog, notReady, hostStage, lastProv,
                 createdNow, startFailed, cliError, scaleVars, inputVars, placeVars,
                 probeVars, ioVars, backupVars, cpc, project_name, cruns, instance_ids, alb_arns, ci, tgLeft,
                 clog, cresult, unread, cprev, project>>

\* ------------------------------------- terminate_instances on its own
\* terminate_instances(config, instance_ids) is called with a list, after the
\* last create_cluster run has ended: ec2.terminate_instances succeeds or
\* raises if it is reached, and True is returned otherwise
TerminateInstancesCall(ids, ok) ==
    /\ pc = "done"
    /\ runs = MaxRuns
    /\ dpc = "idle"
    /\ delete_ids' = ids
    /\ termCalls' = termCalls \o TerminateRequests(ids)
    /\ cloud' = IF TerminateRequests(ids) # <<>> /\ ok
                THEN SetState(cloud, SeqToSet(ids), "terminated") ELSE cloud
    /\ dresult' = IF TerminateRequests(ids) = <<>> \/ ok THEN "True" ELSE "ClientError"
    /\ dpc' = "done"
    /\ UNCHANGED <<config, wrote, lbs, druns, dstop, instance_ids_from_config,
                   instance_ids_from_tags>>
    /\ UNCHANGED deleteFrame

NextTerminate ==
    \/ Next
    \/ \E ids \in {<<>>, ledger}, ok \in BOOLEAN : TerminateInstancesCall(ids, ok)

SpecTerminate == Init /\ [][NextTerminate]_vars

\* =================================================================
\* create_ec2_instance_idempotent called by a second run
\* =================================================================
\* Another run of the tool (a create or scale run started from another
\* terminal, on this cluster's configuration or on another project's in the
\* same region) calls create_ec2_instance_idempotent once, for the identity
\* of the first master, before, during or after the provisioning step of this run's
\* create_cluster.  The call goes through the same statements as a unit of
\* this run.  Of create_cluster the provisioning step and the rollback are
\* followed here; a run whose batches have all succeeded stays at the start
\* of wait_for_ssh_parallel.

\* what the second run's call leaves alone
peerFrame == <<config, saved, runs, pc, bi, units, instances, failed, all_instances, ledger,
               termCalls, primary, raised, outcome, startLog, notReady, hostStage, lastProv,
               createdNow, startFailed, scaleVars, wrote, cliError, subnets, customTags,
               registered, placeVars, cleanVars, auxVars>>

\* this run is inside its own call for the tag
UnitActive(t) == Provisioning /\ t \in DOMAIN units /\ ~Finished(units[t])

\* the filter of the second call finds an instance: it is returned as it is
PeerLookupFound(t) ==
    /\ peer.st = "idle"
    /\ ExistingInstances(cloud, t) # {}
    /\ peer' = [st |-> "done", tag |-> t, project |-> "none", inst |-> NoInst,
                seen |-> Len(cloud[t]), overlap |-> UnitActive(t)]
    /\ UNCHANGED cloud
    /\ UNCHANGED peerFrame

\* the filter finds nothing: create_ec2_instance is entered
PeerLookupMissing(t) ==
    /\ peer.st = "idle"
    /\ ExistingInstances(cloud, t) = {}
    /\ peer' = [st |-> "create", tag |-> t, project |-> "none", inst |-> NoInst,
                seen |-> Len(cloud[t]), overlap |-> UnitActive(t)]
    /\ UNCHANGED cloud
    /\ UNCHANGED peerFrame

\* ec2.create_instances of the second call: one pending instance, owned by the
\* project of the configuration the second run was started on, or a rejection
PeerCreateInstance(ok, proj) ==
    /\ peer.st = "create"
    /\ LET t == peer.tag
           met == peer.overlap \/ UnitActive(t) \/ Len(cloud[t]) > peer.seen
       IN  IF ok
           THEN /\ cloud' = [cloud EXCEPT ![t] = Append(@, "pending")]
                /\ peer' = [peer EXCEPT !.st = "wait", !.overlap = met, !.project = proj,
                                        !.inst = <<t[1], t[2], Len(cloud[t]) + 1>>]
           ELSE /\ peer' = [peer EXCEPT !.st = "done", !.overlap = met]
                /\ UNCHANGED cloud
    /\ UNCHANGED peerFrame

\* instance.wait_until_running() of the second call returns, or raises and
\* leaves the instance pending
PeerWaitRunning(ok) ==
    /\ peer.st = "wait"
    /\ peer' = [peer EXCEPT !.st = "done", !.overlap = @ \/ UnitActive(peer.tag)]
    /\ cloud' = IF ok /\ IsLive(cloud, peer.inst)
                 THEN SetState(cloud, {peer.inst}, "running")
                 ELSE cloud
    /\ UNCHANGED peerFrame

Projects == {"this", "other"}
PeerTags == {<<RoleOrder[1], 0>>}

\* the specifications cli create accepts
InitOverlap == Init /\ ValidateConfig(saved, subnets) = {}

NextOverlap ==
    \/ StartRun
    \/ \E t \in TagSpace : LookupFound(t)
    \/ \E t \in TagSpace : LookupMissing(t)
    \/ \E t \in TagSpace : CreateInstance(t)
    \/ \E t \in TagSpace : CreateRejected(t)
    \/ \E t \in TagSpace : WaitRunning(t)
    \/ \E t \in TagSpace : WaitTimeout(t)
    \/ BatchDone
    \/ RollbackNothing
    \/ RollbackTerminate
    \/ RollbackTerminateFails
    \/ \E t \in PeerTags : PeerLookupFound(t)
    \/ \E t \in PeerTags : PeerLookupMissing(t)
    \/ \E ok \in BOOLEAN, proj \in Projects : PeerCreateInstance(ok, proj)
    \/ \E ok \in BOOLEAN : PeerWaitRunning(ok)

SpecOverlap == InitOverlap /\ [][NextOverlap]_vars

\* =================================================================
\* scale_cluster (src/src/commands/scale.py)
\* =================================================================
\* cli scale: --component is one of master, worker, api; --count is any integer
ScaleComponents == {"master", "worker", "api"}
Targets == (0 - 1)..MaxNodes

\* scale_cluster: what it does with target_count and the current count
ScaleDirectionNoEqual(target_count, current_count) ==
    IF target_count >= current_count THEN "out" ELSE "in"
ScaleDirection(target_count, current_count) ==
    IF target_count = current_count THEN "none"
    ELSE IF target_count > current_count THEN "out" ELSE "in"

\* the validation at the head of scale_in
ScaleInRefusedBelowOne(component, current_count, reduce_count) ==
    current_count - reduce_count < 1
ScaleInRefused(component, current_count, reduce_count) ==
    \/ component = "master" /\ current_count - reduce_count < 2
    \/ component = "api" /\ current_count - reduce_count < 1
    \/ component = "worker" /\ current_count - reduce_count < 1

\* nodes_to_remove = current_nodes[-reduce_count:]
NodesToRemove(nodes, k) ==
    IF k >= Len(nodes) THEN nodes ELSE SubSeq(nodes, Len(nodes) - k + 1, Len(nodes))
\* remaining_nodes = current_nodes[:-reduce_count]
RemainingNodesDroppingFirst(nodes, k) ==
    IF k >= Len(nodes) THEN <<>> ELSE SubSeq(nodes, k + 1, Len(nodes))
RemainingNodes(nodes, k) ==
    IF k >= Len(nodes) THEN <<>> ELSE SubSeq(nodes, 1, Len(nodes) - k)

\* scale_out step 4: one node record per new instance, count += additional_count
AppendNodesCountingOne(cfg, component, insts, additional_count) ==
    [cfg EXCEPT ![component].nodes = @ \o insts, ![component].count = @ + 1]
AppendNodesReplacing(cfg, component, insts, additional_count) ==
    [cfg EXCEPT ![component].nodes = insts, ![component].count = @ + additional_count]
AppendNodes(cfg, component, insts, additional_count) ==
    [cfg EXCEPT ![component].nodes = @ \o insts, ![component].count = @ + additional_count]

\* The state a successful create_cluster of the cluster specification leaves:
\* one running instance per identity tag, recorded in index order.
PostCreateConfig ==
    [r \in RoleSet |-> [count |-> CreateCounts[r],
                        nodes |-> [k \in 1..CreateCounts[r] |-> <<r, k - 1, 1>>]]]

\* every instance of the created fleet runs
FleetRunning ==
    [t \in TagSpace |-> IF t \in Fleet(PostCreateConfig) THEN <<"running">> ELSE <<>>]

\* create_cluster and cli create have returned some time ago: the cloud is c
\* and the configuration file holds cfg
ClusterState(cfg, c) ==
    /\ cloud = c
    /\ config = cfg
    /\ saved = cfg
    /\ runs = 1
    /\ pc = "done"
    /\ bi = 0
    /\ units = <<>>
    /\ instances = <<>>
    /\ failed = "none"
    /\ all_instances = [r \in RoleSet |-> PostCreateConfig[r].nodes]
    /\ ledger = AllHosts([r \in RoleSet |-> PostCreateConfig[r].nodes])
    /\ termCalls = <<>>
    /\ primary = "none"
    /\ raised = "none"
    /\ outcome = "success"
    /\ startLog = <<>>
    /\ notReady = {}
    /\ hostStage = [t \in TagSpace |-> IF t \in Fleet(PostCreateConfig) THEN 8 ELSE 0]
    /\ lastProv = [t \in TagSpace |-> IF t \in Fleet(PostCreateConfig)
                                      THEN <<t[1], t[2], 1>> ELSE NoInst]
    /\ createdNow = {}
    /\ startFailed = FALSE
    /\ spc = "idle"
    /\ sop = NoOp
    /\ stopLog = <<>>
    /\ drains = <<>>
    /\ rollout = FALSE
    /\ hostsMap = <<>>
    /\ hostsPushed = {}
    /\ hostsAppended = [h \in {} |-> <<>>]
    /\ sresult = "none"
    /\ ops = 0
    /\ snap = [saved |-> cfg, cloud |-> c]
    /\ wrote = FALSE
    /\ cliError = "none"

\* create_cluster and cli create have returned, the cloud is c
PostCreate(c) == ClusterState(PostCreateConfig, c)

\* the created cluster, its api nodes registered as the targets of the load
\* balancer of create_alb(config, api_instances)
InitScale ==
    /\ subnets = MinSubnets
    /\ customTags = <<>>
    /\ registered = SeqToSet(PostCreateConfig["api"].nodes)
    /\ peer = NoPeer
    /\ PlacementIdle
    /\ CleanupIdle
    /\ AuxIdle
    /\ PostCreate(FleetRunning)

createFrame == <<runs, pc, all_instances, ledger, primary, raised, outcome, hostStage,
                 startFailed>>

\* cli scale: load_config, then scale_cluster(cfg, component, count, config)
OpStart(component, target, n) ==
    /\ spc \in {"idle", "done"}
    /\ ops < MaxOps
    /\ ops' = ops + 1
    /\ config' = saved
    /\ sop' = [component |-> component, target |-> target, n |-> n]
    /\ snap' = [saved |-> saved, cloud |-> cloud]
    /\ termCalls' = <<>>
    /\ stopLog' = <<>>
    /\ drains' = <<>>
    /\ rollout' = FALSE
    /\ hostsMap' = <<>>
    /\ hostsPushed' = {}
    /\ UNCHANGED hostsAppended
    /\ startLog' = <<>>
    /\ notReady' = {}
    /\ createdNow' = {}
    /\ UNCHANGED <<cloud, saved, lastProv>>
    /\ UNCHANGED createFrame
    /\ wrote' = FALSE
    /\ UNCHANGED cliError
    /\ UNCHANGED otherVars

\* target_count == current_count: logged, True returned
ScaleNoop(component, target) ==
    /\ ScaleDirection(target, saved[component].count) = "none"
    /\ OpStart(component, target, 0)
    /\ sresult' = "ok"
    /\ spc' = "done"
    /\ UNCHANGED <<bi, units, instances, failed>>

\* target_count > current_count: scale_out, up to the submit loop of
\* create_instances_parallel(config, component, additional_count, subnets)
ScaleOutBegin(component, target) ==
    /\ ScaleDirection(target, saved[component].count) = "out"
    /\ OpStart(component, target, target - saved[component].count)
    /\ sresult' = "none"
    /\ spc' = "provision"
    /\ units' = DispatchBatch(component, target - saved[component].count)
    /\ instances' = <<>>
    /\ failed' = "none"
    /\ UNCHANGED bi

\* target_count < current_count: scale_in raises ValueError in its validation
ScaleInRefuse(component, target) ==
    /\ ScaleDirection(target, saved[component].count) = "in"
    /\ ScaleInRefused(component, Len(saved[component].nodes), saved[component].count - target)
    /\ OpStart(component, target, saved[component].count - target)
    /\ sresult' = "ValueError"
    /\ spc' = "done"
    /\ UNCHANGED <<bi, units, instances, failed>>

\* target_count < current_count: scale_in passes its validation and selects
\* the nodes to remove
ScaleInBegin(component, target) ==
    /\ ScaleDirection(target, saved[component].count) = "in"
    /\ ~ScaleInRefused(component, Len(saved[component].nodes), saved[component].count - target)
    /\ OpStart(component, target, saved[component].count - target)
    /\ sresult' = "none"
    /\ spc' = "stop"
    /\ bi' = 1
    /\ UNCHANGED <<units, instances, failed>>

\* ---------------------------------------------------------------- scale_in
\* if component == 'worker': time.sleep(30) after the stop command
DrainsEveryRole(component) == TRUE
Drains(component) == component = "worker"

\* step 2: the stop command on the next selected node succeeds (for a worker
\* the fixed wait follows)
ScaleInStopOk ==
    /\ spc = "stop"
    /\ bi <= Len(NodesToRemove(config[sop.component].nodes, sop.n))
    /\ stopLog' = Append(stopLog, NodesToRemove(config[sop.component].nodes, sop.n)[bi])
    /\ drains' = IF Drains(sop.component)
                 THEN Append(drains, NodesToRemove(config[sop.component].nodes, sop.n)[bi])
                 ELSE drains
    /\ UNCHANGED <<rollout, hostsMap, hostsPushed, hostsAppended>>
    /\ bi' = bi + 1
    /\ UNCHANGED <<cloud, config, saved, units, instances, failed, termCalls, startLog,
                   notReady, lastProv, createdNow, spc, sop, sresult, ops, snap>>
    /\ UNCHANGED createFrame
    /\ UNCHANGED <<wrote, cliError>>
    /\ UNCHANGED otherVars

\* step 2: connect_ssh or the stop command raises; scale_in logs and re-raises
ScaleInStopFail ==
    /\ spc = "stop"
    /\ bi <= Len(NodesToRemove(config[sop.component].nodes, sop.n))
    /\ sresult' = "StopError"
    /\ spc' = "done"
    /\ UNCHANGED <<cloud, config, saved, bi, units, instances, failed, termCalls, stopLog, scaleLog,
                   startLog, notReady, lastProv, createdNow, sop, ops, snap>>
    /\ UNCHANGED createFrame
    /\ UNCHANGED <<wrote, cliError>>
    /\ UNCHANGED otherVars

\* steps 3 and 4: terminate_instances succeeds, the selected nodes leave the
\* configuration and the configuration is saved
ScaleInTerminate ==
    /\ spc = "stop"
    /\ bi > Len(NodesToRemove(config[sop.component].nodes, sop.n))
    /\ LET ids == NodesToRemove(config[sop.component].nodes, sop.n)
           remaining == RemainingNodes(config[sop.component].nodes, sop.n)
           cfg == [config EXCEPT ![sop.component].nodes = remaining,
                                 ![sop.component].count = Len(remaining)]
       IN  /\ termCalls' = termCalls \o TerminateRequests(ids)
           /\ cloud' = SetState(cloud, SeqToSet(ids), "terminated")
           /\ config' = cfg
           /\ saved' = cfg
    /\ sresult' = "ok"
    /\ spc' = "done"
    /\ UNCHANGED <<bi, units, instances, failed, stopLog, scaleLog, startLog, notReady, lastProv,
                   createdNow, sop, ops, snap>>
    /\ UNCHANGED createFrame
    /\ wrote' = TRUE
    /\ UNCHANGED cliError
    /\ UNCHANGED otherVars

\* step 3: ec2.terminate_instances raises; scale_in logs and re-raises
ScaleInTerminateFails ==
    /\ spc = "stop"
    /\ bi > Len(NodesToRemove(config[sop.component].nodes, sop.n))
    /\ termCalls' = termCalls \o TerminateRequests(NodesToRemove(config[sop.component].nodes, sop.n))
    /\ sresult' = "TerminateError"
    /\ spc' = "done"
    /\ UNCHANGED <<cloud, config, saved, bi, units, instances, failed, stopLog, scaleLog, startLog,
                   notReady, lastProv, createdNow, sop, ops, snap>>
    /\ UNCHANGED createFrame
    /\ UNCHANGED <<wrote, cliError>>
    /\ UNCHANGED otherVars

\* --------------------------------------------------------------- scale_out
\* step 1: create_instances_parallel returns the new instances, or raises
ScaleOutBatchDone ==
    /\ spc = "provision"
    /\ PoolDrained(units)
    /\ IF failed # "none"
       THEN /\ sresult' = failed
            /\ spc' = "done"
            /\ instances' = <<>>
       ELSE /\ spc' = "prepare"
            /\ UNCHANGED <<sresult, instances>>
    /\ UNCHANGED <<cloud, config, saved, bi, units, failed, termCalls, stopLog, scaleLog, startLog,
                   notReady, lastProv, createdNow, sop, ops, snap>>
    /\ UNCHANGED createFrame
    /\ UNCHANGED <<wrote, cliError>>
    /\ UNCHANGED otherVars

\* steps 2 and 3: wait_for_ssh, initialize_node and create_deployment_user
\* succeed on every new host, one after the other
ScaleOutNodesReady ==
    /\ spc = "prepare"
    /\ spc' = "update"
    /\ UNCHANGED <<cloud, config, saved, bi, units, instances, failed, termCalls, stopLog, scaleLog,
                   startLog, notReady, lastProv, createdNow, sop, sresult, ops, snap>>
    /\ UNCHANGED createFrame
    /\ UNCHANGED <<wrote, cliError>>
    /\ UNCHANGED otherVars

\* steps 2 and 3: one of them fails on a new host; scale_out logs and re-raises
ScaleOutNodesFailRollingBack(err) ==
    /\ spc = "prepare"
    /\ sresult' = err
    /\ spc' = "done"
    /\ termCalls' = Append(termCalls, instances)
    /\ cloud' = SetState(cloud, SeqToSet(instances), "terminated")
    /\ UNCHANGED <<config, saved, bi, units, instances, failed, stopLog, scaleLog,
                   startLog, notReady, lastProv, createdNow, sop, ops, snap>>
    /\ UNCHANGED createFrame
    /\ UNCHANGED <<wrote, cliError>>
    /\ UNCHANGED otherVars
ScaleOutNodesFail(err) ==
    /\ spc = "prepare"
    /\ sresult' = err
    /\ spc' = "done"
    /\ UNCHANGED <<cloud, config, saved, bi, units, instances, failed, termCalls, stopLog, scaleLog,
                   startLog, notReady, lastProv, createdNow, sop, ops, snap>>
    /\ UNCHANGED createFrame
    /\ UNCHANGED <<wrote, cliError>>
    /\ UNCHANGED otherVars

\* all_nodes of scale_out: one entry per node record of master, worker, api
\* and alert, with hostname ds-<comp>-<position in the list>
NodesOf(cfg, comp) ==
    [k \in 1..Len(cfg[comp].nodes) |->
        [host |-> cfg[comp].nodes[k], component |-> comp, index |-> k - 1,
         hostname |-> <<"ds", comp, k - 1>>]]
AllNodesWithoutAlert(cfg) ==
    NodesOf(cfg, "master") \o NodesOf(cfg, "worker") \o NodesOf(cfg, "api")
AllNodes(cfg) ==
    NodesOf(cfg, "master") \o NodesOf(cfg, "worker") \o NodesOf(cfg, "api")
        \o NodesOf(cfg, "alert")

\* hosts_entries of configure_hosts_file: "<host> <hostname>" for every node
HostsEntries(nodes) == [k \in 1..Len(nodes) |-> <<nodes[k].host, nodes[k].hostname>>]

\* the hosts configure_hosts_file submits update_hosts_on_node for
HostsOf(nodes) == {nodes[k].host : k \in 1..Len(nodes)}

\* update_hosts_on_node on every host of a set: 'cat << EOF | sudo tee -a
\* /etc/hosts' puts hosts_content after what the file holds
UpdateHostsOnNodes(files, hosts, entries) ==
    [h \in DOMAIN files \cup hosts |->
        IF h \in hosts
        THEN (IF h \in DOMAIN files THEN files[h] ELSE <<>>) \o entries
        ELSE files[h]]

\* step 4: the new node records are appended, the count is raised and
\* configure_hosts_file updates /etc/hosts on every node of all_nodes
ScaleOutUpdate ==
    /\ spc = "update"
    /\ config' = AppendNodes(config, sop.component, instances, sop.n)
    /\ hostsMap' = HostsEntries(AllNodes(config'))
    /\ hostsPushed' = HostsOf(AllNodes(config'))
    /\ hostsAppended' = UpdateHostsOnNodes(hostsAppended, hostsPushed', hostsMap')
    /\ spc' = "save"
    /\ UNCHANGED <<cloud, saved, bi, units, instances, failed, termCalls, stopLog, drains,
                   rollout, startLog, notReady, lastProv, createdNow, sop, sresult, ops, snap>>
    /\ UNCHANGED createFrame
    /\ UNCHANGED <<wrote, cliError>>
    /\ UNCHANGED otherVars

\* step 4: save_config(config_file, config)
ScaleOutSave ==
    /\ spc = "save"
    /\ saved' = config
    /\ wrote' = TRUE
    /\ spc' = "start"
    /\ bi' = 1
    /\ UNCHANGED <<cloud, config, units, instances, failed, termCalls, stopLog, scaleLog,
                   startLog, notReady, lastProv, createdNow, sop, sresult, ops, snap>>
    /\ UNCHANGED createFrame
    /\ UNCHANGED cliError
    /\ UNCHANGED otherVars

\* step 4: update_hosts_on_node raises on one node after the in-memory
\* configuration was updated; the executor lets the updates of the other
\* nodes finish; nothing is saved
ScaleOutHostsFail ==
    /\ spc = "update"
    /\ config' = AppendNodes(config, sop.component, instances, sop.n)
    /\ hostsMap' = HostsEntries(AllNodes(config'))
    /\ \E h \in HostsOf(AllNodes(config')) :
          hostsPushed' = HostsOf(AllNodes(config')) \ {h}
    /\ hostsAppended' = UpdateHostsOnNodes(hostsAppended, hostsPushed', hostsMap')
    /\ sresult' = "HostsError"
    /\ spc' = "done"
    /\ UNCHANGED <<cloud, saved, bi, units, instances, failed, termCalls, stopLog, drains,
                   rollout, startLog, notReady, lastProv, createdNow, sop, ops, snap>>
    /\ UNCHANGED createFrame
    /\ UNCHANGED <<wrote, cliError>>
    /\ UNCHANGED otherVars

\* step 5, worker: the start command on the next new host succeeds and its
\* port is polled
ScaleOutStartOk(ready) ==
    /\ spc = "start"
    /\ sop.component = "worker"
    /\ bi <= Len(instances)
    /\ startLog' = Append(startLog, instances[bi])
    /\ notReady' = IF ready THEN notReady ELSE notReady \cup {instances[bi]}
    /\ bi' = bi + 1
    /\ UNCHANGED <<cloud, config, saved, units, instances, failed, termCalls, stopLog, scaleLog,
                   lastProv, createdNow, spc, sop, sresult, ops, snap>>
    /\ UNCHANGED createFrame
    /\ UNCHANGED <<wrote, cliError>>
    /\ UNCHANGED otherVars

\* step 5, worker: the download, connect_ssh or the start command raises
ScaleOutStartFail ==
    /\ spc = "start"
    /\ sop.component = "worker"
    /\ bi <= Len(instances)
    /\ sresult' = "StartError"
    /\ spc' = "done"
    /\ UNCHANGED <<cloud, config, saved, bi, units, instances, failed, termCalls, stopLog, scaleLog,
                   startLog, notReady, lastProv, createdNow, sop, ops, snap>>
    /\ UNCHANGED createFrame
    /\ UNCHANGED <<wrote, cliError>>
    /\ UNCHANGED otherVars

\* step 5: every new worker was started, or the role is master or api and
\* only the notice is logged; True is returned
ScaleOutDone ==
    /\ spc = "start"
    /\ sop.component # "worker" \/ bi > Len(instances)
    \* elif component in ['master', 'api']: the notice that the role needs a
    \* cluster restart
    /\ rollout' = (sop.component \in {"master", "api"})
    /\ sresult' = "ok"
    /\ spc' = "done"
    /\ UNCHANGED <<cloud, config, saved, bi, units, instances, failed, termCalls, stopLog,
                   drains, hostsMap, hostsPushed, hostsAppended, startLog, notReady, lastProv,
                   createdNow, sop, ops, snap>>
    /\ UNCHANGED createFrame
    /\ UNCHANGED <<wrote, cliError>>
    /\ UNCHANGED otherVars

NextScale ==
    \/ \E c \in ScaleComponents, target \in Targets : ScaleNoop(c, target)
    \/ \E c \in ScaleComponents, target \in Targets : ScaleOutBegin(c, target)
    \/ \E c \in ScaleComponents, target \in Targets : ScaleInRefuse(c, target)
    \/ \E c \in ScaleComponents, target \in Targets : ScaleInBegin(c, target)
    \/ ScaleInStopOk
    \/ ScaleInStopFail
    \/ ScaleInTerminate
    \/ ScaleInTerminateFails
    \/ \E t \in TagSpace : LookupFound(t)
    \/ \E t \in TagSpace : LookupMissing(t)
    \/ \E t \in TagSpace : CreateInstance(t)
    \/ \E t \in TagSpace : CreateRejected(t)
    \/ \E t \in TagSpace : WaitRunning(t)
    \/ \E t \in TagSpace : WaitTimeout(t)
    \/ ScaleOutBatchDone
    \/ ScaleOutNodesReady
    \/ \E err \in {"SSHError", "InitError", "UserError"} : ScaleOutNodesFail(err)
    \/ ScaleOutUpdate
    \/ ScaleOutSave
    \/ ScaleOutHostsFail
    \/ \E ready \in BOOLEAN : ScaleOutStartOk(ready)
    \/ ScaleOutStartFail
    \/ ScaleOutDone

SpecScale == InitScale /\ [][NextScale]_vars

\* =================================================================
\* placement of the instances of a batch on the subnets
\* (create_instances_parallel, distribute_nodes_across_azs)
\* =================================================================
\* subnets[i % len(subnets)]: the position in the subnet list used for index i
SubnetIndexFirst(i, n) == 0
SubnetIndex(i, n) == i % n

\* a batch of pcount instances on a list of 1..MaxSubnets subnets
InitPlacement ==
    /\ subnets \in 1..MaxSubnets
    /\ pcount \in 0..MaxCount
    /\ placed = <<>>
    /\ distribution = <<>>
    /\ customTags = <<>>
    /\ registered = {}
    /\ peer = NoPeer
    /\ CleanupIdle
    /\ AuxIdle
    /\ PostCreate(FleetRunning)

\* create_instances_parallel: one turn of the submit loop, for i = Len(placed)
SubmitNext ==
    /\ Len(placed) < pcount
    /\ placed' = Append(placed, SubnetIndex(Len(placed), subnets))
    /\ UNCHANGED <<pcount, distribution>>
    /\ UNCHANGED <<coreVars, inputVars, cleanVars, auxVars>>

\* distribute_nodes_across_azs: one turn of its loop, for i = Len(distribution)
DistributeNext ==
    /\ Len(distribution) < pcount
    /\ distribution' = Append(distribution,
                              [index |-> Len(distribution),
                               subnet |-> SubnetIndex(Len(distribution), subnets)])
    /\ UNCHANGED <<pcount, placed>>
    /\ UNCHANGED <<coreVars, inputVars, cleanVars, auxVars>>

NextPlacement ==
    \/ SubmitNext
    \/ DistributeNext

SpecPlacement == InitPlacement /\ [][NextPlacement]_vars

\* =================================================================
\* cleanup_by_tags (src/src/commands/delete.py) and the ownership tags
\* =================================================================
ManagedBy == "dolphinscheduler-cli"
DefaultProject == "dolphinscheduler"

\* base_tags of create_ec2_instance
BaseTags(component, index) ==
    [k \in {"Name", "Component", "Index", "ManagedBy"} |->
        CASE k = "Name" -> <<"ds", component, index>>
          [] k = "Component" -> component
          [] k = "Index" -> index
          [] OTHER -> ManagedBy]

\* all_tags = {**custom_tags, **base_tags}: the tags of a created instance
InstanceTags(custom_tags, component, index) ==
    [k \in (DOMAIN custom_tags) \cup (DOMAIN BaseTags(component, index)) |->
        IF k \in DOMAIN BaseTags(component, index)
        THEN BaseTags(component, index)[k]
        ELSE custom_tags[k]]

\* a filter {'Name': 'tag:<key>', 'Values': [value]}
TagMatches(tags, key, value) == key \in DOMAIN tags /\ tags[key] = value

\* the instance-state-name values of the filter of cleanup_by_tags
CleanupStatesWithTerminated == {"running", "pending", "stopping", "stopped", "terminated"}
CleanupStates == {"running", "pending", "stopping", "stopped"}

\* the filters cleanup_by_tags builds; project_name "none" is None
InstanceFilter(tags, state, pn) ==
    /\ TagMatches(tags, "ManagedBy", ManagedBy)
    /\ state \in CleanupStates
    /\ pn # "none" => TagMatches(tags, "Project", pn)

\* the filters of the tag search of delete_cluster
DeleteClusterFilter(tags, state, pn) ==
    /\ TagMatches(tags, "ManagedBy", ManagedBy)
    /\ TagMatches(tags, "Project", pn)
    /\ state \in {"running", "pending", "stopping", "stopped"}

\* every instance ever created in cloud c
AllInstances(c) == UNION {{<<t[1], t[2], g>> : g \in 1..Len(c[t])} : t \in TagSpace}

StateOf(c, inst) == c[TagOf(inst)][inst[3]]

\* ec2.describe_instances(Filters=filters)
DescribeInstances(c, custom_tags, pn) ==
    {i \in AllInstances(c) :
        InstanceFilter(InstanceTags(custom_tags, i[1], i[2]), StateOf(c, i), pn)}

\* elbv2.describe_load_balancers()
\* lists them in the order alb-a, alb-b
ListLoadBalancers(l) == SelectSeq(<<"alb-a", "alb-b">>, LAMBDA a : l[a].state = "active")

\* what cleanup_by_tags does after the search, in program order
CleanupStepsInstancesFirst == <<"terminate", "delete">>
CleanupSteps == <<"delete", "terminate">>

StepAfter(step) ==
    LET k == CHOOSE j \in 1..Len(CleanupSteps) : CleanupSteps[j] = step
    IN  IF k < Len(CleanupSteps) THEN CleanupSteps[k + 1] ELSE "return"

\* the run goes on with the given step, or logs and returns True
Goto(step) ==
    IF step = "return"
    THEN cpc' = "done" /\ cresult' = "True"
    ELSE cpc' = step /\ UNCHANGED cresult

\* the current run deleted every load balancer and terminated every
\* instance it found, and none of its calls failed
RunDeleted ==
    /\ \A k \in 1..Len(clog) : clog[k].ok
    /\ \A k \in 1..Len(alb_arns) : lbs[alb_arns[k]].state = "deleted"
    /\ \A i \in instance_ids : StateOf(cloud, i) = "terminated"

\* the tags ec2_advanced adds, the load balancers and the instance states
\* cleanup_by_tags may meet
CustomTagChoices ==
    {<<>>, [k \in {"Project"} |-> DefaultProject], [k \in {"Project"} |-> "other"]}
FleetIn(sm, sr) ==
    [t \in TagSpace |-> IF t \notin Fleet(PostCreateConfig) THEN <<>>
                        ELSE IF t[1] = "master" THEN <<sm>> ELSE <<sr>>]

\* a created cluster (or what is left of it) and the load balancers of the account
InitCleanup ==
    /\ subnets = MinSubnets
    /\ customTags \in CustomTagChoices
    /\ registered = {}
    /\ peer = NoPeer
    /\ PlacementIdle
    /\ AuxIdle
    /\ lbs \in [AlbIds ->
                  {NoLb, [state |-> "active", managed |-> FALSE, project |-> DefaultProject,
                          tgs |-> 0]}
                  \cup {[state |-> "active", managed |-> TRUE, project |-> p, tgs |-> n] :
                            p \in {DefaultProject, "other"}, n \in 0..MaxTgs}]
    /\ cpc = "idle"
    /\ project_name \in {"none", DefaultProject}
    /\ cruns = 0
    /\ instance_ids = {}
    /\ alb_arns = <<>>
    /\ ci = 0
    /\ tgLeft = 0
    /\ clog = <<>>
    /\ cresult = "none"
    /\ unread = {}
    /\ cprev = NoRun
    /\ \E sm \in {"running", "stopped", "terminated"} :
          PostCreate(FleetIn(sm, IF sm = "terminated" THEN "terminated" ELSE "running"))

cleanFrame == <<config, saved, runs, pc, bi, units, instances, failed, all_instances,
               ledger, termCalls, primary, raised, outcome, startLog, notReady,
               hostStage, lastProv, createdNow, startFailed, wrote, cliError,
               scaleVars, inputVars, placeVars, auxVars, project_name>>

\* cleanup_by_tags is called: the filters are built and describe_instances
\* and describe_load_balancers are called
CleanupStart ==
    /\ cpc \in {"idle", "done"}
    /\ cruns < MaxCleanups
    /\ cruns' = cruns + 1
    /\ cprev' = IF cruns = 0 THEN NoRun
                ELSE [ran |-> TRUE, read |-> unread = {}, deleted |-> RunDeleted,
                      calls |-> Len(clog)]
    /\ instance_ids' = DescribeInstances(cloud, customTags, project_name)
    /\ alb_arns' = <<>>
    /\ ci' = 1
    /\ tgLeft' = 0 - 1
    /\ clog' = <<>>
    /\ cresult' = "none"
    /\ unread' = {}
    /\ cpc' = "search"
    /\ UNCHANGED lbs
    /\ UNCHANGED <<cloud, cleanFrame>>

\* the tag check of the next listed load balancer: describe_tags returns
\* (readable) or raises and the load balancer is passed over
SearchAlb(readable) ==
    /\ cpc = "search"
    /\ ci <= Len(ListLoadBalancers(lbs))
    /\ LET a == ListLoadBalancers(lbs)[ci] IN
        \* the tag check of a listed load balancer
        /\ alb_arns' = IF /\ readable
                          /\ lbs[a].managed
                          /\ project_name = "none" \/ lbs[a].project = project_name
                       THEN Append(alb_arns, a) ELSE alb_arns
        /\ unread' = IF readable THEN unread ELSE unread \cup {a}
    /\ ci' = ci + 1
    /\ UNCHANGED <<lbs, cpc, cruns, instance_ids, tgLeft, clog, cresult, cprev>>
    /\ UNCHANGED <<cloud, cleanFrame>>

\* the search is over: nothing found, True is returned; otherwise the
\* deletions begin
SearchDone ==
    /\ cpc = "search"
    /\ ci > Len(ListLoadBalancers(lbs))
    /\ IF instance_ids = {} /\ alb_arns = <<>>
       THEN Goto("return")
       ELSE Goto(CleanupSteps[1])
    /\ ci' = 1
    /\ UNCHANGED <<lbs, cruns, instance_ids, alb_arns, tgLeft, clog, unread, cprev>>
    /\ UNCHANGED <<cloud, cleanFrame>>

\* a call issued by the run, with its target and whether it succeeded
Call(call, alb, ok) == [call |-> call, alb |-> alb, ok |-> ok]

\* describe_target_groups(LoadBalancerArn=alb_arn) for the next load balancer
\* found: it returns the groups, or raises and the except clause logs
DescribeTargetGroups(ok) ==
    /\ cpc = "delete"
    /\ ci <= Len(alb_arns)
    /\ tgLeft < 0
    /\ IF ok
       THEN /\ tgLeft' = lbs[alb_arns[ci]].tgs
            /\ UNCHANGED <<ci, unread>>
       ELSE /\ unread' = unread \cup {alb_arns[ci]}
            /\ ci' = ci + 1
            /\ UNCHANGED tgLeft
    /\ UNCHANGED <<lbs, cpc, cruns, instance_ids, alb_arns, clog, cresult, cprev>>
    /\ UNCHANGED <<cloud, cleanFrame>>

\* delete_target_group for the next group of the load balancer: when it
\* raises, the except clause around the load balancer logs and the loop goes
\* on with the next load balancer
DeleteTargetGroup(ok) ==
    /\ cpc = "delete"
    /\ ci <= Len(alb_arns)
    /\ tgLeft > 0
    /\ clog' = Append(clog, Call("delete_target_group", alb_arns[ci], ok))
    /\ IF ok
       THEN /\ lbs' = [lbs EXCEPT ![alb_arns[ci]].tgs = @ - 1]
            /\ tgLeft' = tgLeft - 1
            /\ UNCHANGED ci
       ELSE /\ ci' = ci + 1
            /\ tgLeft' = 0 - 1
            /\ UNCHANGED lbs
    /\ UNCHANGED <<cpc, cruns, instance_ids, alb_arns, cresult, unread, cprev>>
    /\ UNCHANGED <<cloud, cleanFrame>>

\* delete_load_balancer, after the last target group of the load balancer
DeleteLoadBalancer(ok) ==
    /\ cpc = "delete"
    /\ ci <= Len(alb_arns)
    /\ tgLeft = 0
    /\ clog' = Append(clog, Call("delete_load_balancer", alb_arns[ci], ok))
    /\ lbs' = IF ok THEN [lbs EXCEPT ![alb_arns[ci]].state = "deleted"] ELSE lbs
    /\ ci' = ci + 1
    /\ tgLeft' = 0 - 1
    /\ UNCHANGED <<cpc, cruns, instance_ids, alb_arns, cresult, unread, cprev>>
    /\ UNCHANGED <<cloud, cleanFrame>>

\* the loop over the load balancers found is over
AlbsDone ==
    /\ cpc = "delete"
    /\ ci > Len(alb_arns)
    /\ Goto(StepAfter("delete"))
    /\ UNCHANGED <<lbs, cruns, instance_ids, alb_arns, ci, tgLeft, clog, unread, cprev>>
    /\ UNCHANGED <<cloud, cleanFrame>>

\* ec2.terminate_instances(InstanceIds=instance_ids): one call for all the
\* instances found; when it raises the except clause logs
TerminateInstances(ok) ==
    /\ cpc = "terminate"
    /\ instance_ids # {}
    /\ clog' = Append(clog, Call("terminate_instances", "none", ok))
    /\ cloud' = IF ok THEN SetState(cloud, instance_ids, "terminated") ELSE cloud
    /\ Goto(StepAfter("terminate"))
    /\ UNCHANGED <<lbs, cruns, instance_ids, alb_arns, ci, tgLeft, unread, cprev>>
    /\ UNCHANGED cleanFrame

\* no instance was found: nothing to terminate
TerminateNothing ==
    /\ cpc = "terminate"
    /\ instance_ids = {}
    /\ Goto(StepAfter("terminate"))
    /\ UNCHANGED <<lbs, cruns, instance_ids, alb_arns, ci, tgLeft, clog, unread, cprev>>
    /\ UNCHANGED <<cloud, cleanFrame>>

NextCleanup ==
    \/ CleanupStart
    \/ \E readable \in BOOLEAN : SearchAlb(readable)
    \/ SearchDone
    \/ \E ok \in BOOLEAN : DescribeTargetGroups(ok)
    \/ \E ok \in BOOLEAN : DeleteTargetGroup(ok)
    \/ \E ok \in BOOLEAN : DeleteLoadBalancer(ok)
    \/ AlbsDone
    \/ \E ok \in BOOLEAN : TerminateInstances(ok)
    \/ TerminateNothing

SpecCleanup == InitCleanup /\ [][NextCleanup]_vars

\* =================================================================
\* cli delete and delete_cluster (src/cli.py, src/src/commands/delete.py)
\* =================================================================
\* config.get('project', {}).get('name', 'dolphinscheduler')
ProjectName(p) == IF p = "none" THEN DefaultProject ELSE p

\* the instance_id of every node record, roles in the order of the loop
ConfigInstanceIds(cfg) ==
    cfg["master"].nodes \o cfg["worker"].nodes \o cfg["api"].nodes \o cfg["alert"].nodes

\* the elements of a set as a list, in the order the iteration yields them
RECURSIVE SetToList(_)
SetToList(S) ==
    IF S = {} THEN <<>>
    ELSE LET e == CHOOSE e \in S : TRUE IN <<e>> \o SetToList(S \ {e})

\* the instances the tag search of delete_cluster returns
TagSearch(c, custom_tags, p) ==
    SetToList({i \in AllInstances(c) :
                  DeleteClusterFilter(InstanceTags(custom_tags, i[1], i[2]), StateOf(c, i),
                                      ProjectName(p))})

\* instance_ids = list(set(instance_ids_from_config + instance_ids_from_tags))
MergeIdsKeepingDuplicates(from_config, from_tags) == from_config \o from_tags
MergeIds(from_config, from_tags) == SetToList(SeqToSet(from_config \o from_tags))

\* any(config['cluster'][component]['nodes'] for component in ...)
HasNodes(cfg) == \E r \in RoleSet : cfg[r].nodes # <<>>

\* what delete_alb_by_tags can leave of a load balancer it takes for its
\* own: each delete_target_group and delete_load_balancer succeeds or raises
LbOutcomes(lb) ==
    {[lb EXCEPT !.state = s, !.tgs = n] : s \in {"active", "deleted"}, n \in 0..lb.tgs}

\* the configuration files cli delete may meet: the one create left, one whose
\* node records were lost, one whose api and alert records were lost, and one
\* that lists the first worker twice
DeleteConfigs ==
    {PostCreateConfig,
     [r \in RoleSet |-> [count |-> CreateCounts[r], nodes |-> <<>>]],
     [PostCreateConfig EXCEPT !["api"].nodes = <<>>, !["alert"].nodes = <<>>],
     [PostCreateConfig EXCEPT !["worker"].nodes = @ \o <<@[1]>>, !["worker"].count = @ + 1]}

\* cleanup_by_tags has not run
NoCleanupRun ==
    /\ cpc = "idle"
    /\ project_name = "none"
    /\ cruns = 0
    /\ instance_ids = {}
    /\ alb_arns = <<>>
    /\ ci = 0
    /\ tgLeft = 0
    /\ clog = <<>>
    /\ cresult = "none"
    /\ unread = {}
    /\ cprev = NoRun

\* a created cluster (or what is left of it), its configuration file and the
\* load balancers of the account
InitDelete ==
    /\ subnets = MinSubnets
    /\ customTags \in CustomTagChoices
    /\ registered = {}
    /\ peer = NoPeer
    /\ PlacementIdle
    /\ ProbeIdle
    /\ IoIdle
    /\ BackupIdle
    /\ NoCleanupRun
    /\ lbs \in [AlbIds -> {NoLb, [state |-> "active", managed |-> TRUE,
                                   project |-> DefaultProject, tgs |-> MaxTgs]}]
    /\ lbs["alb-b"] = NoLb
    /\ dpc = "idle"
    /\ druns = 0
    /\ project \in {"none", "other"}
    /\ dstop = "none"
    /\ instance_ids_from_config = <<>>
    /\ instance_ids_from_tags = <<>>
    /\ delete_ids = <<>>
    /\ dresult = "none"
    /\ \E cfg \in DeleteConfigs, sm \in {"running", "stopped", "terminated"},
          sr \in {"running", "terminated"} :
          ClusterState(cfg, FleetIn(sm, sr))

\* cli delete: load_config, then delete_cluster up to the end of step 1:
\* stop_services is called if a node is configured, and its failure is logged
DeleteBeginAbortingOnStopFailure(stopped) ==
    /\ dpc \in {"idle", "done"}
    /\ druns < MaxDeletes
    /\ druns' = druns + 1
    /\ config' = saved
    /\ dstop' = IF ~HasNodes(saved) THEN "skipped" ELSE IF stopped THEN "ok" ELSE "failed"
    /\ HasNodes(saved) \/ stopped
    /\ termCalls' = <<>>
    /\ wrote' = FALSE
    /\ instance_ids_from_config' = <<>>
    /\ instance_ids_from_tags' = <<>>
    /\ delete_ids' = <<>>
    /\ dresult' = IF HasNodes(saved) /\ ~stopped THEN "SSHError" ELSE "none"
    /\ dpc' = IF HasNodes(saved) /\ ~stopped THEN "done" ELSE "collect"
    /\ UNCHANGED <<cloud, lbs>>
    /\ UNCHANGED deleteFrame
DeleteBegin(stopped) ==
    /\ dpc \in {"idle", "done"}
    /\ druns < MaxDeletes
    /\ druns' = druns + 1
    /\ config' = saved
    /\ dstop' = IF ~HasNodes(saved) THEN "skipped" ELSE IF stopped THEN "ok" ELSE "failed"
    /\ HasNodes(saved) \/ stopped
    /\ termCalls' = <<>>
    /\ wrote' = FALSE
    /\ instance_ids_from_config' = <<>>
    /\ instance_ids_from_tags' = <<>>
    /\ delete_ids' = <<>>
    /\ dresult' = "none"
    /\ dpc' = "collect"
    /\ UNCHANGED <<cloud, lbs>>
    /\ UNCHANGED deleteFrame

\* step 2: the identifiers of the configuration, those of the tag search,
\* and the merged list
DeleteCollect ==
    /\ dpc = "collect"
    /\ instance_ids_from_config' = ConfigInstanceIds(config)
    /\ instance_ids_from_tags' = TagSearch(cloud, customTags, project)
    /\ delete_ids' = MergeIds(ConfigInstanceIds(config), TagSearch(cloud, customTags, project))
    /\ dpc' = "alb"
    /\ UNCHANGED <<cloud, config, termCalls, wrote, lbs, druns, dstop, dresult>>
    /\ UNCHANGED deleteFrame

\* step 2: ec2.describe_instances raises; delete_cluster logs and re-raises
DeleteSearchFails ==
    /\ dpc = "collect"
    /\ instance_ids_from_config' = ConfigInstanceIds(config)
    /\ dresult' = "ClientError"
    /\ dpc' = "done"
    /\ UNCHANGED <<cloud, config, termCalls, wrote, lbs, druns, dstop, instance_ids_from_tags,
                   delete_ids>>
    /\ UNCHANGED deleteFrame

\* step 3: delete_alb_by_tags returns, True or False
DeleteAlbByTags ==
    /\ dpc = "alb"
    /\ \E l \in [AlbIds -> UNION {LbOutcomes(lbs[a]) \cup {lbs[a]} : a \in AlbIds}] :
          /\ \A a \in AlbIds :
                \* the load balancers delete_alb_by_tags takes for its own
                IF /\ lbs[a].state = "active"
                   /\ lbs[a].managed
                   /\ lbs[a].project = ProjectName(project)
                THEN l[a] \in LbOutcomes(lbs[a])
                ELSE l[a] = lbs[a]
          /\ lbs' = l
    /\ dpc' = "terminate"
    /\ UNCHANGED <<cloud, config, termCalls, wrote, druns, dstop, instance_ids_from_config,
                   instance_ids_from_tags, delete_ids, dresult>>
    /\ UNCHANGED deleteFrame

\* step 4: terminate_instances(config, instance_ids) succeeds; True is
\* returned and cli delete reports the deletion
DeleteTerminate ==
    /\ dpc = "terminate"
    /\ delete_ids # <<>>
    /\ termCalls' = termCalls \o TerminateRequests(delete_ids)
    /\ cloud' = SetState(cloud, SeqToSet(delete_ids), "terminated")
    /\ dresult' = "True"
    /\ dpc' = "done"
    /\ UNCHANGED <<config, wrote, lbs, druns, dstop, instance_ids_from_config,
                   instance_ids_from_tags, delete_ids>>
    /\ UNCHANGED deleteFrame

\* step 4: ec2.terminate_instances raises; delete_cluster logs and re-raises
DeleteTerminateFails ==
    /\ dpc = "terminate"
    /\ delete_ids # <<>>
    /\ termCalls' = termCalls \o TerminateRequests(delete_ids)
    /\ dresult' = "ClientError"
    /\ dpc' = "done"
    /\ UNCHANGED <<cloud, config, wrote, lbs, druns, dstop, instance_ids_from_config,
                   instance_ids_from_tags, delete_ids>>
    /\ UNCHANGED deleteFrame

\* step 4: no instance to terminate; True is returned
DeleteNothing ==
    /\ dpc = "terminate"
    /\ delete_ids = <<>>
    /\ dresult' = "True"
    /\ dpc' = "done"
    /\ UNCHANGED <<cloud, config, termCalls, wrote, lbs, druns, dstop,
                   instance_ids_from_config, instance_ids_from_tags, delete_ids>>
    /\ UNCHANGED deleteFrame

NextDelete ==
    \/ \E stopped \in BOOLEAN : DeleteBegin(stopped)
    \/ DeleteCollect
    \/ DeleteSearchFails
    \/ DeleteAlbByTags
    \/ DeleteTerminate
    \/ DeleteTerminateFails
    \/ DeleteNothing

SpecDelete == InitDelete /\ [][NextDelete]_vars

\* =================================================================
\* save_config and load_config (src/src/config.py): yaml.dump and
\* yaml.safe_load
\* =================================================================
\* A Python value is <<type, value>>: <<"str", text>>, <<"int", digits>>,
\* <<"float", digits>>, <<"bool", "true" or "false">>, <<"none", "null">>,
\* <<"list", items>>, <<"dict", pairs>> with pairs a sequence of <<key, value>>
\* in insertion order.  A node of the YAML document is
\* <<"scalar", style, text>>, <<"seq", nodes>> or <<"map", pairs>>.

\* the implicit resolvers of yaml.resolver.Resolver (YAML 1.1), which the
\* Dumper and the SafeLoader share: the type a plain scalar is read as
IntTexts == {"2", "3306"}
FloatTexts == {"1.5"}
TrueTexts == {"true", "yes", "on"}
ImplicitType(text) ==
    IF text \in IntTexts THEN "int"
    ELSE IF text \in FloatTexts THEN "float"
    ELSE IF text \in TrueTexts \cup {"false", "no", "off"} THEN "bool"
    ELSE IF text \in {"null", "~", ""} THEN "none"
    ELSE "str"

\* the style yaml.dump gives a scalar: a str whose text would be read back as
\* another type is quoted, everything else is plain
ScalarStyleAlwaysPlain(type, text) == "plain"
ScalarStyle(type, text) ==
    IF type = "str" /\ ImplicitType(text) # "str" THEN "quoted" ELSE "plain"

\* yaml.dump(config, f, default_flow_style=False, sort_keys=False): the
\* document of a value; a dict keeps its insertion order
RECURSIVE Dump(_)
Dump(v) ==
    IF v[1] \in {"str", "int", "float", "bool", "none"}
    THEN <<"scalar", ScalarStyle(v[1], v[2]), v[2]>>
    ELSE IF v[1] = "list" THEN <<"seq", [k \in 1..Len(v[2]) |-> Dump(v[2][k])]>>
    ELSE <<"map", [k \in 1..Len(v[2]) |-> <<Dump(v[2][k][1]), Dump(v[2][k][2])>>]>>

\* the value the SafeLoader constructs from a scalar node
ConstructScalar(style, text) ==
    IF style = "quoted" THEN <<"str", text>>
    ELSE IF ImplicitType(text) = "bool"
         THEN <<"bool", IF text \in TrueTexts THEN "true" ELSE "false">>
    ELSE IF ImplicitType(text) = "none" THEN PyNone
    ELSE <<ImplicitType(text), text>>

\* dict[key] = value: a key already present keeps its place
Put(pairs, key, value) ==
    IF \E j \in 1..Len(pairs) : pairs[j][1] = key
    THEN [j \in 1..Len(pairs) |-> IF pairs[j][1] = key THEN <<key, value>> ELSE pairs[j]]
    ELSE Append(pairs, <<key, value>>)

RECURSIVE PutAll(_, _)
PutAll(pairs, more) ==
    IF more = <<>> THEN pairs
    ELSE PutAll(Put(pairs, more[1][1], more[1][2]), Tail(more))

\* yaml.safe_load(f): the value of a document
RECURSIVE Load(_)
Load(n) ==
    IF n[1] = "scalar" THEN ConstructScalar(n[2], n[3])
    ELSE IF n[1] = "seq" THEN <<"list", [k \in 1..Len(n[2]) |-> Load(n[2][k])]>>
    ELSE <<"dict", PutAll(<<>>, [k \in 1..Len(n[2]) |-> <<Load(n[2][k][1]), Load(n[2][k][2])>>])>>

\* the scalars, lists and maps the configurations are made of
Scalars ==
    {<<"str", t>> : t \in {"localhost", "2", "yes", "null", "", "1.5"}}
    \cup {<<"int", t>> : t \in IntTexts}
    \cup {<<"float", t>> : t \in FloatTexts}
    \cup {<<"bool", "true">>, <<"bool", "false">>, PyNone}
Lists == {<<"list", l>> : l \in UNION {[1..n -> Scalars] : n \in 0..MaxItems}}
Keys == {<<"str", "host">>, <<"str", "2">>, <<"int", "2">>, <<"str", "on">>}
FlatDicts ==
    {<<"dict", <<>>>>}
    \cup {<<"dict", << <<k, v>> >> >> : k \in Keys, v \in Scalars \cup Lists}
    \cup {<<"dict", << <<p[1], v1>>, <<p[2], v2>> >> >> :
              p \in {q \in Keys \X Keys : q[1] # q[2]}, v1 \in {<<"str", "2">>, <<"int", "2">>}, v2 \in Scalars}
\* a configuration to save; the file does not exist yet
InitIo ==
    /\ subnets = MinSubnets
    /\ customTags = <<>>
    /\ registered = {}
    /\ peer = NoPeer
    /\ PlacementIdle
    /\ CleanupIdle
    /\ ProbeIdle
    /\ DeleteIdle
    /\ BackupIdle
    /\ PostCreate(FleetRunning)
    /\ to_save \in FlatDicts \cup {<<"dict", << <<k, d>> >> >> : k \in Keys, d \in FlatDicts}
    /\ yaml_file = NoFile
    /\ loaded = NotLoaded

ioFrame == <<coreVars, inputVars, placeVars, cleanVars, probeVars, deleteVars, backupVars,
             to_save>>

\* save_config(config_file, config)
SaveConfig ==
    /\ yaml_file' = Dump(to_save)
    /\ yaml_file # Dump(to_save)
    /\ UNCHANGED loaded
    /\ UNCHANGED ioFrame

\* load_config(config_file) with the file in place
LoadConfig ==
    /\ yaml_file # NoFile
    /\ loaded' = Load(yaml_file)
    /\ UNCHANGED yaml_file
    /\ UNCHANGED ioFrame

\* load_config(config_file) with the file missing
LoadConfigMissing ==
    /\ yaml_file = NoFile
    /\ loaded' = <<"FileNotFoundError">>
    /\ UNCHANGED yaml_file
    /\ UNCHANGED ioFrame

NextIo ==
    \/ SaveConfig
    \/ LoadConfig
    \/ LoadConfigMissing

SpecIo == InitIo /\ [][NextIo]_vars

\* =================================================================
\* ConfigVersionManager (src/src/config.py)
\* =================================================================
\* contents the configuration file takes
Contents == {"a", "b"}

\* sorted(self.backup_dir.glob('config_*.yaml'), reverse=True): the
\* timestamps of the files of the directory, latest first
RECURSIVE SortedReverse(_)
SortedReverse(S) ==
    IF S = {} THEN <<>>
    ELSE LET m == CHOOSE m \in S : \A o \in S : o <= m
         IN  <<m>> \o SortedReverse(S \ {m})

ListVersions(dir) == SortedReverse({t \in Timestamps : dir[t] # "missing"})

\* a ConfigVersionManager on a configuration file that exists or not; the
\* backup directory is empty
InitBackup ==
    /\ subnets = MinSubnets
    /\ customTags = <<>>
    /\ registered = {}
    /\ peer = NoPeer
    /\ PlacementIdle
    /\ CleanupIdle
    /\ ProbeIdle
    /\ DeleteIdle
    /\ IoIdle
    /\ PostCreate(FleetRunning)
    /\ config_file \in Contents \cup {"missing"}
    /\ backup_dir = EmptyDir
    /\ now = 0
    /\ taken = <<>>
    /\ returned = [value |-> "none", timestamp |-> 0, found |-> EmptyDir]
    /\ versions = <<>>

backupFrame == <<coreVars, inputVars, placeVars, cleanVars, probeVars, deleteVars, ioVars>>

\* a second passes
Tick ==
    /\ now < MaxClock
    /\ now' = now + 1
    /\ UNCHANGED <<config_file, backup_dir, taken, returned, versions>>
    /\ UNCHANGED backupFrame

\* the configuration file is written (save_config) or removed
WriteConfigFile(c) ==
    /\ c # config_file
    /\ config_file' = c
    /\ UNCHANGED <<backup_dir, now, taken, returned, versions>>
    /\ UNCHANGED backupFrame

\* backup_current_config()
BackupCurrentConfig ==
    /\ Len(taken) < MaxBackups
    /\ IF config_file = "missing"
       THEN /\ returned' = [value |-> "None", timestamp |-> 0, found |-> backup_dir]
            /\ UNCHANGED <<backup_dir, taken>>
       \* backup_file = self.backup_dir / f"config_{timestamp}.yaml" with
       \* timestamp = datetime.now().strftime('%Y%m%d_%H%M%S'): the file is
       \* named by the second of the clock
       ELSE /\ backup_dir' = [backup_dir EXCEPT ![now] = config_file]
            /\ returned' = [value |-> "backup_file", timestamp |-> now,
                            found |-> backup_dir]
            /\ taken' = Append(taken, [timestamp |-> now, content |-> config_file])
    /\ UNCHANGED <<config_file, now, versions>>
    /\ UNCHANGED backupFrame

\* list_versions()
ListVersionsCall ==
    /\ versions' = ListVersions(backup_dir)
    /\ versions' # versions
    /\ UNCHANGED <<config_file, backup_dir, now, taken, returned>>
    /\ UNCHANGED backupFrame

NextBackup ==
    \/ Tick
    \/ \E c \in Contents \cup {"missing"} : WriteConfigFile(c)
    \/ BackupCurrentConfig
    \/ ListVersionsCall

SpecBackup == InitBackup /\ [][NextBackup]_vars

\* =================================================================
\* the readiness probes: wait_for_service_ready (src/src/aws/ec2.py) and
\* wait_for_ssh (src/src/deploy/ssh.py)
\* =================================================================
\* what one connection attempt can meet.  wait_for_service_ready: connect_ex
\* returns 0, returns an error number, or the socket calls raise.
\* wait_for_ssh: connect_ssh and exec_command return, connect_ssh raises,
\* exec_command raises.
AttemptOutcomes(p) ==
    IF p = "wait_for_service_ready" THEN {"connected", "refused", "socket_error"}
    ELSE {"command_sent", "connect_error", "exec_error"}

\* is_service_running: result == 0, and False from the bare except;
\* wait_for_ssh: the try block reaches return True
AttemptSucceeded(o) == o = "connected" \/ o = "command_sent"

\* for i in range(max_retries): the loop body runs for i
InRangeInclusive(i, n) == i <= n
InRange(i, n) == i < n

\* the arguments the probes are called with; the probe has not started
InitProbe ==
    /\ subnets = MinSubnets
    /\ customTags = <<>>
    /\ registered = {}
    /\ peer = NoPeer
    /\ PlacementIdle
    /\ CleanupIdle
    /\ PostCreate(FleetRunning)
    /\ DeleteIdle
    /\ IoIdle
    /\ BackupIdle
    /\ prober \in {"wait_for_service_ready", "wait_for_ssh"}
    /\ max_retries \in 0..MaxRetries
    /\ attempt = 0
    /\ plog = <<>>
    /\ sleeps = 0
    /\ ppc = "start"
    /\ presult = "none"

probeFrame == <<coreVars, inputVars, placeVars, cleanVars, deleteVars, ioVars, backupVars,
               prober, max_retries>>

\* the probe is entered; wait_for_ssh called without key_file finds the key
\* with get_ssh_key_path
ProbeEnter ==
    /\ ppc = "start"
    /\ ppc' = "loop"
    /\ UNCHANGED <<attempt, plog, sleeps, presult>>
    /\ UNCHANGED probeFrame

\* wait_for_ssh called without key_file: get_ssh_key_path finds no key and
\* raises before the loop
ProbeKeyMissing ==
    /\ ppc = "start"
    /\ prober = "wait_for_ssh"
    /\ ppc' = "done"
    /\ presult' = "FileNotFoundError"
    /\ UNCHANGED <<attempt, plog, sleeps>>
    /\ UNCHANGED probeFrame

\* one turn of the loop: the attempt succeeds and True is returned
ProbeAttemptOk(o) ==
    /\ ppc = "loop"
    /\ InRange(attempt, max_retries)
    /\ AttemptSucceeded(o)
    /\ plog' = Append(plog, o)
    /\ presult' = "True"
    /\ ppc' = "done"
    /\ UNCHANGED <<attempt, sleeps>>
    /\ UNCHANGED probeFrame

\* one turn of the loop: the attempt fails.  Before the last turn the probe
\* goes to sleep; in the last turn wait_for_ssh returns False from its except
\* clause and wait_for_service_ready leaves the loop.
ProbeAttemptFail(o) ==
    /\ ppc = "loop"
    /\ InRange(attempt, max_retries)
    /\ ~AttemptSucceeded(o)
    /\ plog' = Append(plog, o)
    /\ IF attempt < max_retries - 1
       THEN /\ ppc' = "sleep"
            /\ UNCHANGED <<attempt, presult>>
       ELSE IF prober = "wait_for_ssh"
       THEN /\ ppc' = "done"
            /\ presult' = "False"
            /\ UNCHANGED attempt
       ELSE /\ attempt' = attempt + 1
            /\ UNCHANGED <<ppc, presult>>
    /\ UNCHANGED sleeps
    /\ UNCHANGED probeFrame

\* time.sleep(retry_interval) returns and the loop goes to its next turn
ProbeSleep ==
    /\ ppc = "sleep"
    /\ sleeps' = sleeps + 1
    /\ attempt' = attempt + 1
    /\ ppc' = "loop"
    /\ UNCHANGED <<plog, presult>>
    /\ UNCHANGED probeFrame

\* the loop is over: return False
ProbeExhausted ==
    /\ ppc = "loop"
    /\ ~InRange(attempt, max_retries)
    /\ presult' = "False"
    /\ ppc' = "done"
    /\ UNCHANGED <<attempt, plog, sleeps>>
    /\ UNCHANGED probeFrame

NextProbe ==
    \/ ProbeEnter
    \/ ProbeKeyMissing
    \/ \E o \in AttemptOutcomes(prober) : ProbeAttemptOk(o)
    \/ \E o \in AttemptOutcomes(prober) : ProbeAttemptFail(o)
    \/ ProbeSleep
    \/ ProbeExhausted

SpecProbe == InitProbe /\ [][NextProbe]_vars

\* every call of the probe returns or times out (socket timeout 5 s, ssh
\* timeouts 30 s and 60 s, sleep of retry_interval seconds): a step that is
\* possible is eventually taken
SpecProbeFair == SpecProbe /\ WF_vars(NextProbe)

\* =================================================================
\* Properties of create_cluster
\* =================================================================
RoleRank(r) ==
    CASE r = "master" -> 1
      [] r = "worker" -> 2
      [] r = "api" -> 3
      [] OTHER -> 4

FleetSize == Cardinality(Fleet(config))

\* C1: idempotent provisioning.  At most one live (running or pending)
\* instance carries an identity tag, and a provisioning call made while the
\* instance returned by the previous call for the same tag is still live
\* returns that same instance and creates nothing.
IdempotentProvisioning ==
    /\ \A t \in TagSpace : Cardinality(LiveGens(cloud, t)) <= 1
    /\ Provisioning =>
          \A t \in DOMAIN units :
              (units[t].st = "ok" /\ units[t].pre # NoInst) =>
                  /\ units[t].inst = units[t].pre
                  /\ \A i \in createdNow : TagOf(i) # t

\* a second call for a tag has returned while the first call's instance was live
SecondCallReturned ==
    /\ Provisioning
    /\ \E t \in DOMAIN units : units[t].st = "ok" /\ units[t].pre # NoInst

\* C2: rollback completeness.  When the Initialize phase fails after all N
\* hosts were provisioned and reachable, rollback_deployment issues one
\* termination request that names exactly the N instances of this run.
RollbackCompleteness ==
    (pc = "done" /\ primary \in {"InitError", "UserError"}) =>
        /\ Len(termCalls) = 1
        /\ Len(termCalls[1]) = FleetSize
        /\ SeqToSet(termCalls[1]) = SeqToSet(AllHosts(all_instances))
        /\ {TagOf(i) : i \in SeqToSet(termCalls[1])} = Fleet(config)

InitializeFailedAndRolledBack ==
    pc = "done" /\ primary = "InitError" /\ termCalls # <<>>

\* C4: tail-phase fail-soft.  Once the port check of a worker host has
\* returned False the run only goes on verifying and returns success:
\* nothing is terminated.
TailPhaseFailSoft ==
    (\E n \in notReady : n[1] = "worker") =>
        /\ pc \in {"verify", "done"}
        /\ termCalls = <<>>
        /\ pc = "done" => (outcome = "success" /\ raised = "none")

SuccessWithWorkerNotReady ==
    pc = "done" /\ outcome = "success" /\ \E n \in notReady : n[1] = "worker"

PhaseBarriers ==
    /\ \A t \in Fleet(config) :
          PhaseOfStage(hostStage[t]) >= PhaseOfStage(StageNo(pc)) - 1
    /\ \A t \in Fleet(config) : hostStage[t] >= StageNo(pc) - 1
    /\ startLog # <<>> => \A t \in Fleet(config) : PhaseOfStage(hostStage[t]) >= 5

ServiceStartedAfterDeploy ==
    pc = "start" /\ startLog # <<>>

\* C7: service start order.  Every start command is issued after the start
\* commands of all nodes of the roles that come earlier in master, worker,
\* api, alert; the alert start is the last one.
ServiceStartOrder ==
    /\ \A k \in 1..Len(startLog) : \A r \in RoleSet :
          RoleRank(r) < RoleRank(startLog[k][1]) =>
              \A n \in SeqToSet(config[r].nodes) : \E j \in 1..(k - 1) : startLog[j] = n
    /\ \A k \in 1..Len(startLog) :
          startLog[k][1] = "alert" => (k = Len(startLog) /\ k = FleetSize)

AllServicesStarted ==
    pc = "verify" /\ Len(startLog) = FleetSize

\* C8 as stated: the instances created by the units of a failed batch are
\* recorded in the ledger before the error propagates, and after the rollback
\* no instance created by the failed run is live.
PartialSuccessesRolledBack ==
    /\ (pc = "rollback" /\ primary \in {"ProvisionError", "NotReadyError"}) =>
          \A t \in DOMAIN units :
              (units[t].st = "ok" /\ units[t].inst \in createdNow) =>
                  units[t].inst \in SeqToSet(ledger)
    /\ (pc = "done" /\ outcome = "error" /\ raised = primary) =>
          \A i \in createdNow : ~IsLive(cloud, i)

\* C9 as stated: rollback terminates only instances this run created.
RollbackOnlyCreated ==
    \A k \in 1..Len(termCalls) : SeqToSet(termCalls[k]) \subseteq createdNow

\* C10 as stated: the error that leaves a failed create_cluster is the
\* error of the failed phase, also when the termination of the rollback fails.
RollbackKeepsPrimaryError ==
    (pc = "done" /\ outcome = "error") => raised = primary

\* C13 as stated: after a successful create_cluster every role has as many
\* node records as its count in the cluster specification asks for, in the
\* configuration in memory and in the one saved.
CreateRecordsDesiredCounts ==
    (pc = "done" /\ outcome = "success") =>
        \A r \in RoleSet :
            /\ Len(config[r].nodes) = config[r].count
            /\ Len(saved[r].nodes) = saved[r].count

\* the cluster specification violates a replica minimum or has fewer than
\* two subnets
SpecBelowMinimums ==
    \/ saved["master"].count < 2
    \/ saved["api"].count < 1
    \/ saved["worker"].count < 1
    \/ subnets < 2

\* C20: validation precedes mutation.  With a cluster specification that
\* violates a replica minimum or has fewer than two subnets, every cli create
\* ends with the validation error: no instance exists, no unit of work was
\* dispatched, no host went through any step, no service was started, and the
\* configuration in memory and on disk is the one loaded and was never saved.
ValidationPrecedesMutation ==
    SpecBelowMinimums =>
        /\ pc = "idle"
        /\ runs > 0 => cliError = "ValueError"
        /\ \A t \in TagSpace : cloud[t] = <<>> /\ hostStage[t] = 0
        /\ units = <<>>
        /\ createdNow = {}
        /\ startLog = <<>>
        /\ termCalls = <<>>
        /\ ~wrote
        /\ config = saved
        /\ \A r \in RoleSet : saved[r].nodes = <<>>

\* cli create was run twice on a specification with one master and was
\* refused both times
CreateRefusedTwice ==
    /\ saved["master"].count = 1
    /\ runs = 2
    /\ cliError = "ValueError"

\* C32: parallel readiness is all-or-fail.  When wait_for_ssh fails on a
\* host, wait_for_ssh_parallel raises: the run stays in the readiness step
\* until the helper ends, then goes to rollback_deployment, which issues its
\* terminate request, and ends with an error.  The Initialize phase and every
\* later step are entered only when wait_for_ssh has succeeded on every host
\* of the fleet.
ParallelReadinessAllOrFail ==
    /\ (pc = "ssh" /\ \E t \in DOMAIN units : units[t].st = "fail") => failed = "SSHError"
    /\ failed = "SSHError" =>
          /\ pc \in {"ssh", "rollback", "done"}
          /\ pc # "ssh" => primary = "SSHError"
          /\ pc = "done" => (outcome = "error" /\ Len(termCalls) = 1)
    /\ StageNo(pc) >= 3 =>
          /\ failed = "none" \/ pc \in ParallelPhases
          /\ \A t \in Fleet(config) : hostStage[t] >= 2
          /\ {TagOf(h) : h \in SeqToSet(AllHosts(all_instances))} = Fleet(config)

\* wait_for_ssh failed on a host and succeeded on another one, and the run
\* was rolled back
PartlyReachableRolledBack ==
    /\ pc = "done"
    /\ primary = "SSHError"
    /\ termCalls # <<>>
    /\ \E t \in DOMAIN units : units[t].st = "ok"
    /\ \E t \in DOMAIN units : units[t].st = "fail"

\* C33: empty termination is a no-op.  terminate_instances called with an
\* empty list returns True and sends no request to the platform, and
\* rollback_deployment entered with an empty ledger ends without a request;
\* in both cases no instance changes its state.
EmptyTerminationIsNoop ==
    [][/\ (dpc = "idle" /\ dpc' = "done" /\ delete_ids' = <<>>) =>
              (dresult' = "True" /\ termCalls' = termCalls /\ cloud' = cloud)
       /\ (pc = "rollback" /\ pc' = "done" /\ ledger = <<>>) =>
              (termCalls' = termCalls /\ cloud' = cloud)]_vars

\* a run failed before any instance was recorded and left a pending instance
\* behind, its rollback has ended, and terminate_instances was then called
\* with the empty ledger
EmptyLedgerRolledBackAndTerminated ==
    /\ pc = "done"
    /\ outcome = "error"
    /\ ledger = <<>>
    /\ \E i \in createdNow : IsLive(cloud, i)
    /\ dpc = "done"
    /\ delete_ids = <<>>
    /\ dresult = "True"

\* a dispatched unit of the current batch has not finished
InFlight == \E t \in DOMAIN units : units[t].st \notin {"ok", "fail"}

\* C34: no rollback while work is in flight.  rollback_deployment is entered,
\* and has run, only when every dispatched unit of the batch has finished,
\* the failed one included; and while a unit is in flight the run stays in
\* its step, no terminate request is issued and the batch keeps its units:
\* none is dropped or replaced before it has finished.
NoRollbackWhileInFlight ==
    /\ []((pc = "rollback" \/ termCalls # <<>>) => ~InFlight)
    /\ [][InFlight => (pc' = pc /\ termCalls' = termCalls /\ DOMAIN units' = DOMAIN units)]_vars

\* a unit of initialize_nodes_parallel failed, another one succeeded, and the
\* rollback has issued its terminate request
InitializeBatchDrainedBeforeRollback ==
    /\ pc = "done"
    /\ primary = "InitError"
    /\ termCalls # <<>>
    /\ \E t \in DOMAIN units : units[t].st = "ok"
    /\ \E t \in DOMAIN units : units[t].st = "fail"

\* C35 as stated: after a successful create_cluster the node record at
\* position i of every role's list is the instance whose identity tag is
\* ds-<role>-<i>, in memory and in the saved configuration, and the hostname
\* map gives every host the hostname of its identity tag.
OrdinalMatchesIdentityTag ==
    (pc = "done" /\ outcome = "success") =>
        /\ \A r \in RoleSet : \A k \in 1..Len(config[r].nodes) :
              /\ TagOf(config[r].nodes[k]) = <<r, k - 1>>
              /\ saved[r].nodes[k] = config[r].nodes[k]
        /\ \A k \in 1..Len(AllNodes(config)) :
              AllNodes(config)[k].hostname =
                  <<"ds", AllNodes(config)[k].host[1], AllNodes(config)[k].host[2]>>

\* =================================================================
\* Properties of scale_cluster
\* =================================================================
MinReplicas(component) ==
    CASE component = "master" -> MinMaster
      [] component = "worker" -> MinWorker
      [] OTHER -> MinApi

\* the operation in progress or just ended is a scale-in to fewer nodes
\* than the role's minimum
ScaleInBelowMinimum ==
    /\ sop.component \in ScaleComponents
    /\ sop.target < snap.saved[sop.component].count
    /\ sop.target < MinReplicas(sop.component)

\* C3: scale-in minimum enforcement.  A scale-in whose resulting count is
\* below the role's minimum (master 2, worker 1, api 1) ends with the
\* validation error; no stop command is issued, nothing is terminated or
\* created, and the in-memory and the persisted configuration and the cloud
\* are what they were when the operation started.
ScaleInMinimumEnforced ==
    ScaleInBelowMinimum =>
        /\ sresult = "ValueError"
        /\ spc = "done"
        /\ stopLog = <<>>
        /\ termCalls = <<>>
        /\ createdNow = {}
        /\ config = snap.saved
        /\ saved = snap.saved
        /\ cloud = snap.cloud

MasterScaleInRefused ==
    /\ sop.component = "master"
    /\ sop.target = 1
    /\ snap.saved["master"].count = 2
    /\ sresult = "ValueError"

\* the operation in progress or just ended is a scale-out
ScaleOutOp ==
    /\ sop.component \in ScaleComponents
    /\ sop.target > snap.saved[sop.component].count

\* the identity tags of a role that have a live instance in cloud c
LiveTags(c, role) == {t \in TagSpace : t[1] = role /\ LiveGens(c, t) # {}}

\* C11 as stated: a successful scale_out(role, delta) on a role with n live
\* nodes has created delta instances that did not exist before, the role's
\* node records name pairwise distinct instances, and the role has n + delta
\* live instances.
ScaleOutProvisionsNew ==
    (ScaleOutOp /\ spc = "done" /\ sresult = "ok") =>
        /\ Cardinality(createdNow) = sop.n
        /\ \A j, k \in 1..Len(saved[sop.component].nodes) :
              j # k => saved[sop.component].nodes[j] # saved[sop.component].nodes[k]
        /\ Cardinality(LiveTags(cloud, sop.component)) =
              Cardinality(LiveTags(snap.cloud, sop.component)) + sop.n

\* C12: scale-out frame.  Once scale_out has updated the configuration, and
\* when it has returned, the role's node list is the list it had when the
\* operation started followed by exactly delta records, its count is delta
\* higher, and the records and counts of every other role are what they were;
\* the persisted configuration is the same as the one in memory.
ScaleOutFrame ==
    (ScaleOutOp /\ (spc = "start" \/ (spc = "done" /\ sresult = "ok"))) =>
        /\ Len(saved[sop.component].nodes) = Len(snap.saved[sop.component].nodes) + sop.n
        /\ SubSeq(saved[sop.component].nodes, 1, Len(snap.saved[sop.component].nodes))
              = snap.saved[sop.component].nodes
        /\ saved[sop.component].count = snap.saved[sop.component].count + sop.n
        /\ sop.n = sop.target - snap.saved[sop.component].count
        /\ \A r \in RoleSet \ {sop.component} : saved[r] = snap.saved[r]
        /\ config = saved

\* a worker scale-out by two nodes has returned True
WorkerScaledOutByTwo ==
    /\ ScaleOutOp
    /\ sop.component = "worker"
    /\ sop.n = 2
    /\ spc = "done"
    /\ sresult = "ok"

\* C15: scale_cluster dispatch.  A target equal to the current count ends at
\* once with True: nothing is provisioned, no start or stop command is issued,
\* nothing is terminated, the configuration in memory and on disk and the
\* cloud are untouched and save_config is not called.  A higher target goes
\* to scale_out with target - current nodes to add, a lower one to scale_in
\* with current - target nodes to remove.
ScaleDispatch ==
    sop.component \in ScaleComponents =>
        /\ sop.target = snap.saved[sop.component].count =>
              /\ spc = "done"
              /\ sresult = "ok"
              /\ sop.n = 0
              /\ createdNow = {}
              /\ startLog = <<>>
              /\ stopLog = <<>>
              /\ termCalls = <<>>
              /\ config = snap.saved
              /\ saved = snap.saved
              /\ cloud = snap.cloud
              /\ ~wrote
        /\ sop.target > snap.saved[sop.component].count =>
              /\ sop.n = sop.target - snap.saved[sop.component].count
              /\ spc \in {"provision", "prepare", "update", "save", "start", "done"}
              /\ stopLog = <<>>
              /\ termCalls = <<>>
        /\ sop.target < snap.saved[sop.component].count =>
              /\ sop.n = snap.saved[sop.component].count - sop.target
              /\ spc \in {"stop", "done"}
              /\ createdNow = {}
              /\ startLog = <<>>

\* a scale operation whose target is the current count has returned, after an
\* earlier operation changed the cluster
ScaleNoopReturned ==
    /\ sop.component \in ScaleComponents
    /\ sop.target = snap.saved[sop.component].count
    /\ sresult = "ok"
    /\ ops = 2
    /\ saved # PostCreateConfig

\* the operation in progress or just ended is a scale-in
ScaleInOp ==
    /\ sop.component \in ScaleComponents
    /\ sop.target < snap.saved[sop.component].count

\* the node records the role had when the operation started, and the last
\* sop.n of them
OldNodes == snap.saved[sop.component].nodes
Selected == SubSeq(OldNodes, Len(OldNodes) - sop.n + 1, Len(OldNodes))

\* C26: scale-in node selection.  A scale_in that returned True on a role
\* with n node records removed exactly the last k: they are the instances of
\* the terminate request, the role's list is the first n - k records in their
\* order, its count is n - k, and every other role is unchanged, in memory
\* and in the saved configuration.
ScaleInRemovesTail ==
    (ScaleInOp /\ spc = "done" /\ sresult = "ok") =>
        /\ sop.n >= 1
        /\ sop.n < Len(OldNodes)
        /\ termCalls = <<Selected>>
        /\ saved[sop.component].nodes = SubSeq(OldNodes, 1, Len(OldNodes) - sop.n)
        /\ saved[sop.component].count = Len(OldNodes) - sop.n
        /\ \A r \in RoleSet \ {sop.component} : saved[r] = snap.saved[r]
        /\ config = saved

\* a master scale-in from three records, which are not all the same, to two
\* has returned True
MasterScaledInFromThree ==
    /\ ScaleInOp
    /\ sop.component = "master"
    /\ Len(OldNodes) = 3
    /\ OldNodes[1] # OldNodes[2]
    /\ sop.n = 1
    /\ spc = "done"
    /\ sresult = "ok"

\* C27: scale-in step ordering.  The stop commands go to the selected nodes
\* in order, each followed by the fixed wait for the worker role only; the
\* one terminate request is issued after the stop command has completed on
\* every selected node; the configuration is changed and saved only after
\* the terminate request succeeded; when a stop command or the terminate
\* request fails, the configuration in memory and on disk is the one the
\* operation started from and save_config was not called.
ScaleInStepOrder ==
    ScaleInOp =>
        /\ Len(stopLog) <= sop.n
        /\ \A j \in 1..Len(stopLog) : stopLog[j] = Selected[j]
        /\ drains = IF sop.component = "worker" THEN stopLog ELSE <<>>
        /\ termCalls # <<>> => (stopLog = Selected /\ termCalls = <<Selected>>)
        /\ (wrote \/ saved # snap.saved \/ config # snap.saved) =>
              /\ termCalls = <<Selected>>
              /\ sresult = "ok"
              /\ \A j \in 1..Len(Selected) : StateOf(cloud, Selected[j]) = "terminated"
        /\ sresult \in {"StopError", "TerminateError"} =>
              /\ saved = snap.saved
              /\ config = snap.saved
              /\ ~wrote

\* the terminate request of a worker scale-in failed after the stop command
\* and the wait
WorkerScaleInTerminateFailed ==
    /\ ScaleInOp
    /\ sop.component = "worker"
    /\ sresult = "TerminateError"
    /\ stopLog # <<>>
    /\ drains = stopLog

\* C28 as stated: when scale_in removes api nodes that are registered in the
\* load balancer's target group, a node the stop command was issued on has
\* been deregistered from the target group before.
ApiScaleInDrainsTargets ==
    (ScaleInOp /\ sop.component = "api") =>
        \A j \in 1..Len(stopLog) : stopLog[j] \notin registered

\* the node records of every role of a configuration
RecordCount(cfg) ==
    Len(cfg["master"].nodes) + Len(cfg["worker"].nodes) + Len(cfg["api"].nodes)
        + Len(cfg["alert"].nodes)

\* C29: scale-out hostname map.  When scale_out goes to save the updated
\* configuration, and whenever it has saved it, configure_hosts_file has
\* updated every host of every role of the updated configuration, with a map
\* of one entry per node record, the appended ones included; the saved
\* configuration changes only by that save.
HostnameMapBeforePersist ==
    ScaleOutOp =>
        /\ (wrote \/ spc = "save") =>
              /\ hostsPushed = UNION {SeqToSet(config[r].nodes) : r \in RoleSet}
              /\ Len(hostsMap) = RecordCount(config)
              /\ \A r \in RoleSet : \A k \in 1..Len(config[r].nodes) :
                    \E j \in 1..Len(hostsMap) :
                        hostsMap[j] = <<config[r].nodes[k], <<"ds", r, k - 1>> >>
              /\ Len(config[sop.component].nodes) = Len(OldNodes) + sop.n
        /\ wrote => saved = config
        /\ saved # snap.saved => wrote

\* an api scale-out has saved the configuration of six node records
ApiScaleOutPersisted ==
    /\ ScaleOutOp
    /\ sop.component = "api"
    /\ wrote
    /\ Len(hostsMap) = 6

\* the hosts of the node records the configuration had when the operation
\* started
OldHosts == UNION {SeqToSet(snap.saved[r].nodes) : r \in RoleSet}

\* C30 as stated: in scale_out a start command is issued only for the worker
\* role and only on hosts that were added by the operation; for master and
\* api no start command is issued and the operation reports that the role
\* needs a cluster-wide rollout; no peer is stopped or terminated.
ScaleOutStartsNewWorkersOnly ==
    ScaleOutOp =>
        /\ sop.component # "worker" => startLog = <<>>
        /\ \A j \in 1..Len(startLog) :
              /\ startLog[j][1] = "worker"
              /\ startLog[j] \in SeqToSet(instances)
              /\ startLog[j] \notin OldHosts
        /\ (spc = "done" /\ sresult = "ok") => (rollout <=> sop.component \in {"master", "api"})
        /\ stopLog = <<>>
        /\ termCalls = <<>>

\* the errors of create_instances_parallel, wait_for_ssh, initialize_node and
\* create_deployment_user
EarlyScaleOutErrors ==
    {"ProvisionError", "NotReadyError", "SSHError", "InitError", "UserError"}

\* C31: scale-out failure aborts without rollback.  When scale_out has ended
\* with an error of provisioning, of the readiness wait or of the
\* initialization of the new hosts, no terminate request and no stop command
\* was issued, every instance that existed when the operation started is in
\* the state it was in, and the node records and counts in memory and the
\* persisted configuration are what they were; save_config was not called.
ScaleOutAbortsWithoutRollback ==
    (ScaleOutOp /\ spc = "done" /\ sresult \in EarlyScaleOutErrors) =>
        /\ termCalls = <<>>
        /\ stopLog = <<>>
        /\ \A t \in TagSpace : \A g \in 1..Len(snap.cloud[t]) : cloud[t][g] = snap.cloud[t][g]
        /\ config = snap.saved
        /\ saved = snap.saved
        /\ ~wrote

\* the initialization of a new host failed after the operation had created
\* an instance, which is left running
ScaleOutInitFailed ==
    /\ ScaleOutOp
    /\ spc = "done"
    /\ sresult = "InitError"
    /\ \E i \in createdNow : StateOf(cloud, i) = "running"

\* C36: count/record consistency.  For master, worker and api the count of
\* the persisted configuration is the number of its node records, before,
\* during and after every scale operation, and so is the count of the
\* configuration in memory whenever an operation has returned True; the
\* number of nodes scale_cluster adds or removes is therefore the difference
\* between the target and the number of records.
CountMatchesRecords ==
    /\ \A r \in ScaleComponents : saved[r].count = Len(saved[r].nodes)
    /\ (spc = "done" /\ sresult = "ok") =>
          \A r \in ScaleComponents : config[r].count = Len(config[r].nodes)
    /\ (sop.component \in ScaleComponents /\ sop.target > Len(OldNodes)) =>
          sop.n = sop.target - Len(OldNodes)
    /\ (sop.component \in ScaleComponents /\ sop.target < Len(OldNodes)) =>
          sop.n = Len(OldNodes) - sop.target

\* a scale-in has returned True on a role that a scale-out by two nodes had
\* enlarged before
ScaledOutByTwoThenIn ==
    /\ ScaleInOp
    /\ spc = "done"
    /\ sresult = "ok"
    /\ ops = 2
    /\ Len(OldNodes) = Len(PostCreateConfig[sop.component].nodes) + 2

\* C37 as stated: provisioning is race-free per identity.  When a call of
\* another run for a (component, index) has overlapped this run's call for the
\* same identity, at most one live instance carries that identity tag.
OneLivePerIdentityWhenOverlapped ==
    peer.overlap => Cardinality(LiveGens(cloud, peer.tag)) <= 1

\* C37, amended: provisioning is idempotent per identity for calls that do
\* not overlap.  Whenever two live instances carry the same identity tag, a
\* call of another run for that tag has overlapped a call of this run; calls
\* for the same (component, index) made one after the other leave at most one
\* live instance with that tag.
OneLivePerIdentityUnlessOverlapped ==
    \A t \in TagSpace :
        Cardinality(LiveGens(cloud, t)) > 1 => (peer.tag = t /\ peer.overlap)

\* the other run's call created the instance on its own, and a later call of
\* this run for the same identity has returned that instance
PeerInstanceReturnedLater ==
    /\ peer.st = "done"
    /\ ~peer.overlap
    /\ peer.inst # NoInst
    /\ Provisioning
    /\ peer.tag \in DOMAIN units
    /\ units[peer.tag].st = "ok"
    /\ units[peer.tag].inst = peer.inst
    /\ LiveGens(cloud, peer.tag) = {peer.inst[3]}

\* C38: isolation between projects.  An instance that a run on another
\* project's configuration created with the identity tag ds-<role>-<index> is
\* never returned to this cluster's provisioning: it is in no list of
\* create_cluster, in no node record of this cluster's topology, and in no
\* termination request of this cluster's rollback.
ForeignInstanceNeverAdopted ==
    (peer.project = "other" /\ peer.inst # NoInst) =>
        /\ peer.inst \notin SeqToSet(instances)
        /\ peer.inst \notin SeqToSet(ledger)
        /\ \A r \in RoleSet : peer.inst \notin SeqToSet(all_instances[r])
        /\ \A r \in RoleSet : peer.inst \notin SeqToSet(config[r].nodes)
        /\ \A k \in 1..Len(termCalls) : peer.inst \notin SeqToSet(termCalls[k])

\* C39: deletion survives a failed service stop.  When stop_services has
\* failed, delete_cluster goes on: unless the tag search itself raises, it
\* calls delete_alb_by_tags and then issues one termination request that names
\* every identifier collected from the configuration and from the tags.  No
\* termination request is issued before delete_alb_by_tags has returned, and
\* no load balancer changes after the request.
DeletionSurvivesFailedStop ==
    /\ [](dstop = "failed" =>
            /\ dpc \in {"collect", "alb", "terminate", "done"}
            /\ dresult \in {"none", "True", "ClientError"}
            /\ dpc \in {"collect", "alb", "terminate"} => dresult = "none"
            /\ dpc = "done" =>
                  \/ /\ delete_ids = <<>>
                     /\ dresult = "ClientError"
                     /\ termCalls = <<>>
                  \/ /\ SeqToSet(delete_ids) =
                            SeqToSet(instance_ids_from_config) \cup SeqToSet(instance_ids_from_tags)
                     /\ SeqToSet(ConfigInstanceIds(config)) \subseteq SeqToSet(delete_ids)
                     /\ termCalls = <<delete_ids>>)
    /\ [][/\ dpc' = "terminate" => dpc = "alb"
          /\ termCalls' # <<>> => dpc \in {"terminate", "done"}
          /\ lbs' # lbs => (dpc = "alb" /\ termCalls' = <<>>)]_vars

\* stop_services failed, a load balancer was deleted and the instances of
\* the configuration were terminated
DeletedAfterFailedStop ==
    /\ dstop = "failed"
    /\ dpc = "done"
    /\ dresult = "True"
    /\ lbs["alb-a"].state = "deleted"
    /\ termCalls # <<>>
    /\ \A i \in SeqToSet(ConfigInstanceIds(config)) : StateOf(cloud, i) = "terminated"

\* C40: the hostname-map configuration is idempotent.  After a scale-out has
\* returned True, every host its configure_hosts_file call has updated, hosts
\* that an earlier call had configured included, holds the lines of that one
\* call and nothing else: no line twice, no line of an earlier map.
HostsFileIdempotent ==
    (ScaleOutOp /\ spc = "done" /\ sresult = "ok") =>
        \A h \in hostsPushed : hostsAppended[h] = hostsMap

\* =================================================================
\* Properties of the placement
\* =================================================================
\* C14: AZ round-robin.  Position p of the subnet list is used by exactly the
\* indices p, p + N, p + 2N, ... of the batch, by create_instances_parallel
\* and by distribute_nodes_across_azs alike; five instances on two subnets
\* are placed 0, 1, 0, 1, 0; and a batch of at least two instances on at least
\* two subnets uses at least two of them.
AzRoundRobin ==
    /\ \A k \in 1..Len(placed) :
          /\ placed[k] \in 0..(subnets - 1)
          /\ \E m \in 0..MaxCount : k - 1 = placed[k] + m * subnets
    /\ \A k \in 1..Len(distribution) :
          /\ distribution[k].index = k - 1
          /\ distribution[k].subnet \in 0..(subnets - 1)
          /\ \E m \in 0..MaxCount : k - 1 = distribution[k].subnet + m * subnets
    /\ (subnets = 2 /\ Len(placed) = 5) => placed = <<0, 1, 0, 1, 0>>
    /\ (subnets >= 2 /\ Len(placed) >= 2) =>
          Cardinality({placed[k] : k \in 1..Len(placed)}) >= 2
    /\ (subnets >= 2 /\ Len(distribution) >= 2) =>
          Cardinality({distribution[k].subnet : k \in 1..Len(distribution)}) >= 2

\* both loops have placed five instances on two subnets
FiveOnTwoPlaced ==
    /\ subnets = 2
    /\ Len(placed) = 5
    /\ Len(distribution) = 5

\* =================================================================
\* Properties of cleanup_by_tags and of the ownership tags
\* =================================================================
\* the run has found nothing, issued no call and, once over, returned True
FoundNothing ==
    cpc # "idle" =>
        /\ instance_ids = {}
        /\ alb_arns = <<>>
        /\ clog = <<>>
        /\ cpc = "done" => cresult = "True"

CleanupDeletionOrder ==
    /\ \A j, k \in 1..Len(clog) :
          (j < k /\ clog[j].call = "terminate_instances") =>
              clog[k].call \notin {"delete_target_group", "delete_load_balancer"}
    /\ (\E k \in 1..Len(clog) : clog[k].call = "terminate_instances") =>
          ci > Len(alb_arns)

\* the termination was issued after a load-balancer deletion
TerminatedAfterLbDeletion ==
    \E j, k \in 1..Len(clog) :
        /\ j < k
        /\ clog[j].call = "delete_load_balancer"
        /\ clog[k].call = "terminate_instances"

\* C18 as stated: when a run that found something is over it has returned
\* True and has issued a deletion for every load balancer it found and whose
\* target groups it could list (also when one of those failed to delete) and
\* a termination for the instances it found.
CleanupBestEffortPerResource ==
    (cpc = "done" /\ cresult = "True") =>
        /\ \A k \in 1..Len(alb_arns) :
              alb_arns[k] \notin unread =>
                  \E j \in 1..Len(clog) :
                      clog[j] \in {Call("delete_load_balancer", alb_arns[k], ok) : ok \in BOOLEAN}
        /\ instance_ids # {} =>
              \E j \in 1..Len(clog) : clog[j].call = "terminate_instances"

\* C19 as stated: every instance create_ec2_instance created carries the
\* managed-by marker and the project name, and is matched by the tag filter
\* of delete_cluster and by that of cleanup_by_tags with the project.
CreatedInstancesCarryOwnershipTags ==
    \A i \in AllInstances(cloud) :
        StateOf(cloud, i) \in {"pending", "running"} =>
            /\ TagMatches(InstanceTags(customTags, i[1], i[2]), "ManagedBy", ManagedBy)
            /\ TagMatches(InstanceTags(customTags, i[1], i[2]), "Project", DefaultProject)
            /\ DeleteClusterFilter(InstanceTags(customTags, i[1], i[2]), StateOf(cloud, i),
                                   DefaultProject)
            /\ InstanceFilter(InstanceTags(customTags, i[1], i[2]), StateOf(cloud, i),
                              DefaultProject)

\* =================================================================
\* Properties of the readiness probes
\* =================================================================
\* the attempts made so far all failed
AllAttemptsFailed == \A k \in 1..Len(plog) : ~AttemptSucceeded(plog[k])

\* at most max_retries attempts; none after a success; True only at the first
\* success; False only after max_retries failed attempts; nothing is raised
\* by a failed attempt
ProbeShape ==
    /\ Len(plog) <= max_retries
    /\ \A k \in 1..(Len(plog) - 1) : ~AttemptSucceeded(plog[k])
    /\ sleeps < max_retries \/ sleeps = 0
    /\ presult = "True" <=> (plog # <<>> /\ AttemptSucceeded(plog[Len(plog)]))
    /\ presult = "False" => (Len(plog) = max_retries /\ AllAttemptsFailed)
    /\ presult \notin {"none", "True", "False"} => (prober = "wait_for_ssh" /\ plog = <<>>)
    /\ ppc = "done" <=> presult # "none"

\* C21: bounded readiness probe.  wait_for_service_ready and wait_for_ssh
\* make at most max_retries connection attempts, return True at the first
\* successful attempt without a further attempt, return False (and raise
\* nothing) once max_retries attempts have failed, and every call returns.
BoundedReadinessProbe == []ProbeShape /\ <>(ppc = "done")

\* wait_for_service_ready returned False after three failed attempts, one of
\* which raised inside is_service_running
ServiceProbeExhausted ==
    /\ prober = "wait_for_service_ready"
    /\ max_retries = 3
    /\ presult = "False"
    /\ Len(plog) = 3
    /\ \E k \in 1..Len(plog) : plog[k] = "socket_error"

\* =================================================================
\* Properties of delete_cluster
\* =================================================================
\* the instances the tag search finds in the cloud the run started from
\* (nothing changes an instance between the search and the terminate request)
DiscoveredByTags ==
    {i \in AllInstances(cloud) :
        /\ TagMatches(InstanceTags(customTags, i[1], i[2]), "ManagedBy", ManagedBy)
        /\ TagMatches(InstanceTags(customTags, i[1], i[2]), "Project", ProjectName(project))
        /\ StateOf(cloud, i) \in {"running", "pending", "stopping", "stopped"}}

RecordedInConfig == UNION {SeqToSet(config[r].nodes) : r \in RoleSet}

\* C22: delete_cluster terminates the set union of the identifiers recorded
\* in the configuration and of those discovered by the ownership tags: when
\* the run reaches its terminate step, the one request it issues holds every
\* identifier of either source, and none twice.
DeleteTerminatesUnion ==
    /\ dpc = "terminate" =>
          /\ SeqToSet(delete_ids) = RecordedInConfig \cup DiscoveredByTags
          /\ \A j, k \in 1..Len(delete_ids) : j # k => delete_ids[j] # delete_ids[k]
    /\ (dpc = "done" /\ dresult = "True") =>
          /\ termCalls = IF delete_ids = <<>> THEN <<>> ELSE <<delete_ids>>
          /\ \A j, k \in 1..Len(delete_ids) : j # k => delete_ids[j] # delete_ids[k]
          /\ RecordedInConfig \subseteq SeqToSet(delete_ids)
          /\ \A i \in RecordedInConfig : StateOf(cloud, i) = "terminated"
    /\ Len(termCalls) <= 1

\* a deletion terminated identifiers known from the configuration only, from
\* the tags only and from both, and the configuration listed one of them twice
DeletedFromBothSources ==
    /\ dpc = "done"
    /\ dresult = "True"
    /\ termCalls # <<>>
    /\ SeqToSet(instance_ids_from_config) \ SeqToSet(instance_ids_from_tags) # {}
    /\ SeqToSet(instance_ids_from_tags) \ SeqToSet(instance_ids_from_config) # {}
    /\ SeqToSet(instance_ids_from_tags) \cap SeqToSet(instance_ids_from_config) # {}

\* C23 as stated: after a successful delete the persisted node record list of
\* every role is empty.
DeletionClearsTopology ==
    (dpc = "done" /\ dresult = "True") => \A r \in RoleSet : saved[r].nodes = <<>>

BackupReturnedListed ==
    returned.value = "backup_file" =>
        /\ backup_dir[returned.timestamp] # "missing"
        /\ returned.timestamp \in SeqToSet(ListVersions(backup_dir))

\* the last backup_current_config returned None and created nothing
BackupOfMissingFile ==
    returned.value = "None" => backup_dir = returned.found

\* every backup taken is listed and has the content it was taken with
BackupsKept ==
    \A k \in 1..Len(taken) :
        /\ taken[k].timestamp \in SeqToSet(ListVersions(backup_dir))
        /\ backup_dir[taken[k].timestamp] = taken[k].content

\* C25 as stated: backup_current_config on an existing file returns the
\* path of a backup that exists and is listed by list_versions; it returns
\* None and creates nothing when the file is missing; after any sequence of
\* backups every backup taken is still listed with the content it had when
\* taken.
ConfigBackupsKept ==
    /\ BackupReturnedListed
    /\ BackupOfMissingFile
    /\ BackupsKept

====
